---- MODULE Spec2Model ----
(***************************************************************************)
(* A model of the SBAS inversion engine of insar/timeseries.py:            *)
(* run_inversion, run_sbas, _load_and_run, write_out_chunk, calc_soln and  *)
(* _get_block_shape, with the helper of insar/prepare.py they call.        *)
(*                                                                         *)
(* Python indexes from 0 and TLA+ tuples from 1: full_shape[1] of the      *)
(* source (the row extent) is full_shape[2] here.  Row and column offsets  *)
(* keep the source's 0-based, half-open convention.                        *)
(***************************************************************************)
EXTENDS Integers, Sequences, FiniteSets, TLC

VARIABLES
    \* ---- inputs of one run_inversion call
    full_shape,      \* hf[input_dset].shape: <<nstack, nrows, ncols>>
    chunk_size,      \* hf[input_dset].chunks, depth replaced by nstack
    nbytes,          \* hf[input_dset].dtype.itemsize
    block_size_max,  \* byte budget handed to _get_block_shape
    \* ---- _get_block_shape's loop and block_iterator's generator
    bpc,             \* position inside _get_block_shape / block_iterator
    loop,            \* _get_block_shape's locals
    block_shape,     \* the value _get_block_shape returned
    gen,             \* block_iterator's locals (row_off, col_off)
    blks,            \* the blocks block_iterator has yielded so far
    \* ---- the rest of run_inversion's inputs and its files
    overwrite,       \* run_inversion's overwrite argument
    unw,             \* hf[input_dset]: one phase sequence per raster pixel
    dset,            \* outfile:/output_dset: exists, shape, data
    paramfile,       \* the run-parameters side file: "previous" | "current"
    meta,            \* the metadata this run attached to outfile
    \* ---- run_inversion and run_sbas in the main process
    pc,              \* position of the main process
    slclist,         \* the filtered date list
    ifglist,         \* the filtered interferogram list
    valid_ifg_idxs,  \* the stack layers the filter kept
    exc,             \* the exception that left run_inversion, or "none"
    nsub,            \* how many blocks have been submitted
    collected,       \* the futures as_completed has yielded
    nwritten,        \* per block, the write_out_chunk calls made for it
    \* ---- the ProcessPoolExecutor
    fut,             \* per block, its future: queued, running, ok, failed
    result,          \* per block, the sub-cube its task returned
    \* ---- one calc_soln call, stepped line by line
    soln,            \* calc_soln's arguments, position and locals
    \* ---- a session of run_inversion calls on the same files
    nrun,            \* how many run_inversion calls have returned
    prev_dset,       \* outfile:/output_dset as the call before left it
    prev_exc,        \* the exception that left the call before, or "none"
    \* ---- run_inversion's regularization arguments
    alpha,           \* run_inversion's alpha argument
    outlier_sigma,   \* run_inversion's outlier_sigma argument
    \* ---- the stores each kind of process has opened during run_sbas
    opened,          \* [main |-> set of stores, worker |-> set of stores]
    \* ---- insar/prepare.py and insar/scripts/process.py, one call each
    deramp,          \* deramp_and_shift_unws: position, locals, output
    shift,           \* shift_stack: arguments, position, stack_out
    proc,            \* process.main: step list, position, steps started
    flat,            \* deramp_stack: position, layers, flattened dataset
    gmask            \* save_geo_masks: position, .mask files, mask stack

blkVars == <<full_shape, chunk_size, nbytes, block_size_max,
             bpc, loop, block_shape, gen, blks>>

fileVars == <<overwrite, unw, dset, paramfile, meta>>

mainVars == <<pc, slclist, ifglist, valid_ifg_idxs, exc, nsub, collected,
              nwritten>>

poolVars == <<fut, result>>

sessionVars == <<soln, nrun, prev_dset, prev_exc>>

argVars == <<alpha, outlier_sigma>>

prepVars == <<deramp, shift, proc, flat, gmask>>

vars == <<blkVars, fileVars, mainVars, poolVars, sessionVars, argVars, opened,
          prepVars>>

-----------------------------------------------------------------------------
(* Bounds of the model. *)

MaxRows == 4
MaxCols == 4
MaxStack == 2
MaxBudget == 12

ItemSizes == {1, 2}

-----------------------------------------------------------------------------
(* Small helpers. *)

Min(a, b) == IF a < b THEN a ELSE b

\* np.prod of a 3-tuple
prod(shape) == shape[1] * shape[2] * shape[3]

-----------------------------------------------------------------------------
(* _get_block_shape, timeseries.py:373-392.                                *)
(* chunks_per_block is a float quotient in the source; the model keeps its *)
(* numerator and denominator, and `chunks_per_block > 1` is num > den.     *)

chunks_per_block(shape, bsm, nb) == [num |-> bsm, den |-> prod(shape) * nb]

\* lines 377-379: the locals before the loop
gbs_enter(fs, cs, bsm, nb) ==
    [cpb |-> chunks_per_block(cs, bsm, nb),
     row_chunks |-> 1, col_chunks |-> 1,
     cur_block_shape |-> cs,
     broke |-> FALSE]

\* the locals before _get_block_shape is entered
gbs_none ==
    [cpb |-> [num |-> 0, den |-> 1], row_chunks |-> 0, col_chunks |-> 0,
     cur_block_shape |-> <<0, 0, 0>>, broke |-> FALSE]

\* line 380: while chunks_per_block > 1
gbs_cond(s) == ~s.broke /\ s.cpb.num > s.cpb.den

\* line 382 and line 386: the branch conditions
gbs_rows_left_never(s, fs, cs) == FALSE
gbs_rows_left(s, fs, cs) == s.row_chunks * cs[2] < fs[2]
gbs_cols_left_always(s, fs, cs) == TRUE
gbs_cols_left(s, fs, cs) == s.col_chunks * cs[3] < fs[3]

\* lines 383-384, then line 391
gbs_grow_rows_by_one(s, fs, cs, bsm, nb) ==
    LET rc == s.row_chunks + 1
        shp == [s.cur_block_shape EXCEPT ![2] = Min(rc, fs[2])]
    IN [s EXCEPT !.row_chunks = rc, !.cur_block_shape = shp,
                 !.cpb = chunks_per_block(shp, bsm, nb)]

gbs_grow_rows(s, fs, cs, bsm, nb) ==
    LET rc == s.row_chunks + 1
        shp == [s.cur_block_shape EXCEPT ![2] = Min(rc * cs[2], fs[2])]
    IN [s EXCEPT !.row_chunks = rc, !.cur_block_shape = shp,
                 !.cpb = chunks_per_block(shp, bsm, nb)]

\* lines 387-388, then line 391
gbs_grow_cols(s, fs, cs, bsm, nb) ==
    LET cc == s.col_chunks + 1
        shp == [s.cur_block_shape EXCEPT ![3] = Min(cc * cs[3], fs[3])]
    IN [s EXCEPT !.col_chunks = cc, !.cur_block_shape = shp,
                 !.cpb = chunks_per_block(shp, bsm, nb)]

\* lines 389-390
gbs_break(s) == [s EXCEPT !.broke = TRUE]

\* one pass through the loop body, lines 381-391
gbs_body(s, fs, cs, bsm, nb) ==
    IF gbs_rows_left(s, fs, cs) THEN gbs_grow_rows(s, fs, cs, bsm, nb)
    ELSE IF gbs_cols_left(s, fs, cs) THEN gbs_grow_cols(s, fs, cs, bsm, nb)
    ELSE gbs_break(s)

RECURSIVE gbs_loop(_, _, _, _, _)
gbs_loop(s, fs, cs, bsm, nb) ==
    IF gbs_cond(s) THEN gbs_loop(gbs_body(s, fs, cs, bsm, nb), fs, cs, bsm, nb)
    ELSE s.cur_block_shape

\* the whole function
_get_block_shape(fs, cs, bsm, nb) ==
    gbs_loop(gbs_enter(fs, cs, bsm, nb), fs, cs, bsm, nb)

-----------------------------------------------------------------------------
(* apertools.utils.block_iterator, the partitioner run_sbas calls.  Its    *)
(* code is not part of src/; it is modelled from the partitioner contract: *)
(* row-major tiles of block_shape, clipped at the raster edge, each next   *)
(* tile starting block extent minus overlap after the previous one.        *)

bi_enter == [row_off |-> 0, col_off |-> 0]

\* the generator is exhausted
bi_done(g, arr_shape) == g.row_off >= arr_shape[1]

\* the block yielded at generator state g
bi_yield(g, arr_shape, blk_shape) ==
    << <<g.row_off, Min(g.row_off + blk_shape[1], arr_shape[1])>>,
       <<g.col_off, Min(g.col_off + blk_shape[2], arr_shape[2])>> >>

\* the generator state after the yield at g
bi_advance(g, arr_shape, blk_shape, overlaps) ==
    LET c1 == g.col_off + blk_shape[2]
        c2 == IF c1 < arr_shape[2] THEN c1 - overlaps[2] ELSE c1
        r1 == g.row_off + blk_shape[1]
        r2 == IF r1 < arr_shape[1] THEN r1 - overlaps[1] ELSE r1
    IN IF c2 < arr_shape[2] THEN [g EXCEPT !.col_off = c2]
       ELSE [row_off |-> r2, col_off |-> 0]

\* the overlap checks before the first yield raise ValueError
bi_raises(blk_shape, overlaps) ==
    overlaps[1] >= blk_shape[1] \/ overlaps[2] >= blk_shape[2]

RECURSIVE bi_collect(_, _, _, _)
bi_collect(g, arr_shape, blk_shape, overlaps) ==
    IF bi_done(g, arr_shape) THEN <<>>
    ELSE <<bi_yield(g, arr_shape, blk_shape)>>
         \o bi_collect(bi_advance(g, arr_shape, blk_shape, overlaps),
                       arr_shape, blk_shape, overlaps)

\* list(block_iterator(arr_shape, blk_shape, overlaps)); <<>> when it raises
block_iterator(arr_shape, blk_shape, overlaps) ==
    IF bi_raises(blk_shape, overlaps) THEN <<>>
    ELSE bi_collect(bi_enter, arr_shape, blk_shape, overlaps)

\* run_sbas, timeseries.py:240: the overlaps it asks for
sbas_overlaps_lapped == <<0, 1>>
sbas_overlaps == <<0, 0>>

\* run_sbas, timeseries.py:240: block_shape[-2:] of the raster (nrows, ncols)
blk_slices(fs, bshape) ==
    block_iterator(<<fs[2], fs[3]>>, <<bshape[2], bshape[3]>>, sbas_overlaps)

-----------------------------------------------------------------------------
(* Numbers.  The source computes in float32; the model computes the same   *)
(* expressions exactly, on rationals n/d with d > 0 in lowest terms.       *)
(* A phase value is a record: NaN, or a finite integer number of radians.  *)

NaN == [nan |-> TRUE, v |-> 0]
Fin(x) == [nan |-> FALSE, v |-> x]

Abs(x) == IF x < 0 THEN -x ELSE x

RECURSIVE Gcd(_, _)
Gcd(a, b) == IF b = 0 THEN a ELSE Gcd(b, a % b)

Rat(n, d) ==
    LET g == Gcd(Abs(n), Abs(d))
        sgn == IF d < 0 THEN -1 ELSE 1
    IN [n |-> sgn * (n \div g), d |-> sgn * (d \div g)]

RatMul(a, b) == Rat(a.n * b.n, a.d * b.d)

RatZero == [n |-> 0, d |-> 1]

RECURSIVE SeqSum(_)
SeqSum(s) == IF s = <<>> THEN 0 ELSE Head(s) + SeqSum(Tail(s))

\* the sum of f[x] over the finite set S
RECURSIVE SetSum(_, _)
SetSum(f, S) ==
    IF S = {} THEN 0
    ELSE LET x == CHOOSE y \in S : TRUE IN f[x] + SetSum(f, S \ {x})

\* the dot product of two integer sequences of one length
Dot(a, b) == SeqSum([i \in 1..Len(a) |-> a[i] * b[i]])

\* constants.PHASE_TO_CM, the radians-to-centimetres factor (wavelength over
\* 4 pi, about 0.44); insar/constants.py is not part of src/
PHASE_TO_CM == [n |-> 11, d |-> 25]

-----------------------------------------------------------------------------
(* ts_utils.build_A_matrix, which calc_soln calls at timeseries.py:329;    *)
(* insar/ts_utils.py is not part of src/.  One row per interferogram, one  *)
(* column per date but the first: -1 at the early date, +1 at the late.    *)

build_A_matrix(slcs, ifgs) ==
    [j \in 1..Len(ifgs) |->
        [idx \in 1..(Len(slcs) - 1) |->
            IF slcs[idx + 1] = ifgs[j][1] THEN -1
            ELSE IF slcs[idx + 1] = ifgs[j][2] THEN 1
            ELSE 0]]

\* A's column c as a sequence over the rows
Column(A, c) == [j \in 1..Len(A) |-> A[j][c]]

(* np.linalg.pinv, timeseries.py:330: the Moore-Penrose inverse of A, for  *)
(* A of one or two columns, as an integer matrix num (one row per column   *)
(* of A) over a common positive denominator den.  With G = A^T A:          *)
(* full column rank gives adj(G) A^T / det(G), rank one gives A^T / tr(G), *)
(* and the zero matrix gives zero.                                         *)
pinv(A) ==
    LET M == Len(A)
        ncol == Len(A[1])
        g11 == Dot(Column(A, 1), Column(A, 1))
    IN IF ncol = 1
       THEN IF g11 = 0
            THEN [num |-> <<[j \in 1..M |-> 0]>>, den |-> 1]
            ELSE [num |-> <<Column(A, 1)>>, den |-> g11]
       ELSE LET g12 == Dot(Column(A, 1), Column(A, 2))
                g22 == Dot(Column(A, 2), Column(A, 2))
                det == g11 * g22 - g12 * g12
            IN IF det # 0
               THEN [num |-> << [j \in 1..M |-> g22 * A[j][1] - g12 * A[j][2]],
                                [j \in 1..M |-> g11 * A[j][2] - g12 * A[j][1]] >>,
                     den |-> det]
               ELSE IF g11 + g22 # 0
               THEN [num |-> <<Column(A, 1), Column(A, 2)>>, den |-> g11 + g22]
               ELSE [num |-> << [j \in 1..M |-> 0], [j \in 1..M |-> 0] >>,
                     den |-> 1]

-----------------------------------------------------------------------------
(* calc_soln, timeseries.py:292-338.  A chunk is its shape and its values, *)
(* one sequence along axis 0 for every (row, col) inside the chunk.        *)

ChunkPixels(shape) == (0..(shape[2] - 1)) \X (0..(shape[3] - 1))

\* line 309: np.where(nan_idxs, 0, unw_cols)
nonan(col) == [k \in 1..Len(col) |-> IF col[k].nan THEN 0 ELSE col[k].v]

\* line 311: unw_cols_nonan.sum()
chunk_sum(unw_chunk) ==
    SetSum([p \in ChunkPixels(unw_chunk.shape) |-> SeqSum(nonan(unw_chunk.val[p]))],
           ChunkPixels(unw_chunk.shape))

\* line 312: np.zeros((len(slcs_clean), nrow, ncol))
zeros_chunk_unknowns(n, nrow, ncol) ==
    [shape |-> <<n - 1, nrow, ncol>>,
     val |-> [p \in ChunkPixels(<<n, nrow, ncol>>) |->
                [k \in 1..(n - 1) |-> RatZero]]]

zeros_chunk(n, nrow, ncol) ==
    [shape |-> <<n, nrow, ncol>>,
     val |-> [p \in ChunkPixels(<<n, nrow, ncol>>) |-> [k \in 1..n |-> RatZero]]]

\* lines 329-338: pA @ unw_cols_nonan, a zero image put first, then scaled
first_date_copied(pA, b) == <<Rat(Dot(pA.num[1], b), pA.den)>>
first_date(pA, b) == <<RatZero>>

solve_chunk(unw_chunk, slcs, ifgs) ==
    LET pA == pinv(build_A_matrix(slcs, ifgs))
        nrow == unw_chunk.shape[2]
        ncol == unw_chunk.shape[3]
        pixel_soln(p) ==
            LET b == nonan(unw_chunk.val[p])
                stack == [k \in 1..Len(pA.num) |-> Rat(Dot(pA.num[k], b), pA.den)]
                whole == first_date(pA, b) \o stack
            IN [k \in 1..Len(whole) |-> RatMul(whole[k], PHASE_TO_CM)]
    IN [shape |-> <<Len(pA.num) + 1, nrow, ncol>>,
        val |-> [p \in ChunkPixels(unw_chunk.shape) |-> pixel_soln(p)]]

\* line 311: the all-zero shortcut is taken
fast_path(unw_chunk) == chunk_sum(unw_chunk) = 0

calc_soln(unw_chunk, slcs, ifgs) ==
    IF fast_path(unw_chunk)
    THEN zeros_chunk(Len(slcs), unw_chunk.shape[2], unw_chunk.shape[3])
    ELSE solve_chunk(unw_chunk, slcs, ifgs)

-----------------------------------------------------------------------------
(* calc_soln stepped line by line: its arguments, its position and the     *)
(* locals it has assigned so far.  A local not yet assigned is empty.      *)

NoPinv == [num |-> <<>>, den |-> 0]

cs_none ==
    [pos |-> "idle",
     unw_chunk |-> [shape |-> <<0, 0, 0>>, val |-> <<>>],
     slclist |-> <<>>, ifglist |-> <<>>,
     unw_cols_nonan |-> <<>>,
     A |-> <<>>, pA |-> NoPinv,
     stack |-> <<>>,
     ret |-> [shape |-> <<0, 0, 0>>, val |-> <<>>]]

\* the call calc_soln(unw_chunk, slclist, ifglist)
cs_call(unw_chunk, slcs, ifgs) ==
    [cs_none EXCEPT !.pos = "enter", !.unw_chunk = unw_chunk,
                    !.slclist = slcs, !.ifglist = ifgs]

cs_pixels(s) == ChunkPixels(s.unw_chunk.shape)

\* lines 303-309: the NaN of the flattened chunk replaced by 0
cs_enter(s) ==
    [s EXCEPT !.pos = "test",
              !.unw_cols_nonan =
                  [p \in cs_pixels(s) |-> nonan(s.unw_chunk.val[p])]]

\* line 311: unw_cols_nonan.sum() == 0
cs_fast_never(s) == FALSE
cs_fast(s) ==
    SetSum([p \in cs_pixels(s) |-> SeqSum(s.unw_cols_nonan[p])],
           cs_pixels(s)) = 0

\* line 312
cs_return_zeros(s) ==
    [s EXCEPT !.pos = "done",
              !.ret = zeros_chunk(Len(s.slclist), s.unw_chunk.shape[2],
                                  s.unw_chunk.shape[3])]

\* line 329
cs_build_all_dates(s) ==
    [s EXCEPT !.pos = "pinv",
              !.A = build_A_matrix(<<0>> \o s.slclist, s.ifglist)]

cs_build(s) ==
    [s EXCEPT !.pos = "pinv", !.A = build_A_matrix(s.slclist, s.ifglist)]

\* line 330
cs_pinv(s) == [s EXCEPT !.pos = "matmul", !.pA = pinv(s.A)]

\* line 333: pA @ unw_cols_nonan, one row of unknowns per date but the first
cs_matmul(s) ==
    [s EXCEPT !.pos = "concat",
              !.stack = [p \in cs_pixels(s) |->
                           [k \in 1..Len(s.pA.num) |->
                               Rat(Dot(s.pA.num[k], s.unw_cols_nonan[p]),
                                   s.pA.den)]]]

\* line 336: a zero image is put before the first row
cs_concat(s) ==
    [s EXCEPT !.pos = "scale",
              !.stack = [p \in cs_pixels(s) |->
                           first_date(s.pA, s.unw_cols_nonan[p]) \o s.stack[p]]]

\* lines 337-338: the stack is scaled to centimetres and returned
cs_scale(s) ==
    [s EXCEPT !.pos = "done",
              !.ret = [shape |-> <<Len(s.pA.num) + 1, s.unw_chunk.shape[2],
                                   s.unw_chunk.shape[3]>>,
                       val |-> [p \in cs_pixels(s) |->
                                  [k \in 1..Len(s.stack[p]) |->
                                      RatMul(s.stack[p][k], PHASE_TO_CM)]]]]

-----------------------------------------------------------------------------
(* The partitioner on its own: every raster, chunk shape, item size and    *)
(* budget within the bounds, _get_block_shape stepped through its loop and *)
(* block_iterator through its yields.  The chunk shape is the dataset's    *)
(* chunks, or for a dataset stored without chunks the fixed fallback of    *)
(* timeseries.py:118, which a small raster does not bound.                 *)

\* no run_inversion call is in progress
NoRun ==
    /\ overwrite = FALSE
    /\ unw = <<>>
    /\ dset = [exists |-> FALSE, shape |-> <<>>, data |-> <<>>]
    /\ paramfile = "previous"
    /\ meta = {}
    /\ pc = "idle"
    /\ slclist = <<>> /\ ifglist = <<>> /\ valid_ifg_idxs = <<>>
    /\ exc = "none"
    /\ nsub = 0
    /\ collected = {}
    /\ nwritten = <<>>
    /\ fut = <<>>
    /\ result = <<>>

\* no earlier run_inversion call has been made on the files
NoSession ==
    /\ nrun = 0
    /\ prev_dset = [exists |-> FALSE, shape |-> <<>>, data |-> <<>>]
    /\ prev_exc = "none"

\* run_inversion's default regularization arguments, lines 62-63
DefaultArgs == alpha = 0 /\ outlier_sigma = 0

\* no store has been opened by the main process or by a worker
NoOpens == [main |-> {}, worker |-> {}]

\* no function of prepare.py or process.py has been called
NotCalled == [pos |-> "idle"]

NoPrepare ==
    /\ deramp = NotCalled
    /\ shift = NotCalled
    /\ proc = NotCalled
    /\ flat = NotCalled
    /\ gmask = NotCalled

InitBlk ==
    /\ NoRun
    /\ NoSession
    /\ DefaultArgs
    /\ opened = NoOpens
    /\ NoPrepare
    /\ soln = cs_none
    /\ full_shape \in (1..MaxStack) \X (1..MaxRows) \X (1..MaxCols)
    /\ chunk_size \in {full_shape[1]} \X (1..MaxRows) \X (1..MaxCols)
    /\ nbytes \in ItemSizes
    /\ block_size_max \in 1..MaxBudget
    /\ bpc = "call"
    /\ loop = gbs_none
    /\ block_shape = <<0, 0, 0>>
    /\ gen = bi_enter
    /\ blks = <<>>

inputsUnchanged ==
    UNCHANGED <<full_shape, chunk_size, nbytes, block_size_max,
                fileVars, mainVars, poolVars, sessionVars, argVars, opened,
                prepVars>>

GbsEnter ==
    /\ bpc = "call"
    /\ bpc' = "loop"
    /\ loop' = gbs_enter(full_shape, chunk_size, block_size_max, nbytes)
    /\ UNCHANGED <<block_shape, gen, blks>>
    /\ inputsUnchanged

GbsGrowRows ==
    /\ bpc = "loop" /\ gbs_cond(loop)
    /\ gbs_rows_left(loop, full_shape, chunk_size)
    /\ loop' = gbs_grow_rows(loop, full_shape, chunk_size, block_size_max, nbytes)
    /\ UNCHANGED <<bpc, block_shape, gen, blks>>
    /\ inputsUnchanged

GbsGrowCols ==
    /\ bpc = "loop" /\ gbs_cond(loop)
    /\ ~gbs_rows_left(loop, full_shape, chunk_size)
    /\ gbs_cols_left(loop, full_shape, chunk_size)
    /\ loop' = gbs_grow_cols(loop, full_shape, chunk_size, block_size_max, nbytes)
    /\ UNCHANGED <<bpc, block_shape, gen, blks>>
    /\ inputsUnchanged

GbsBreak ==
    /\ bpc = "loop" /\ gbs_cond(loop)
    /\ ~gbs_rows_left(loop, full_shape, chunk_size)
    /\ ~gbs_cols_left(loop, full_shape, chunk_size)
    /\ loop' = gbs_break(loop)
    /\ UNCHANGED <<bpc, block_shape, gen, blks>>
    /\ inputsUnchanged

GbsReturn ==
    /\ bpc = "loop" /\ ~gbs_cond(loop)
    /\ block_shape' = loop.cur_block_shape
    /\ bpc' = "iter"
    /\ gen' = bi_enter
    /\ UNCHANGED <<loop, blks>>
    /\ inputsUnchanged

BiYield ==
    /\ bpc = "iter"
    /\ ~bi_raises(<<block_shape[2], block_shape[3]>>, sbas_overlaps)
    /\ ~bi_done(gen, <<full_shape[2], full_shape[3]>>)
    /\ blks' = Append(blks, bi_yield(gen, <<full_shape[2], full_shape[3]>>,
                                     <<block_shape[2], block_shape[3]>>))
    /\ gen' = bi_advance(gen, <<full_shape[2], full_shape[3]>>,
                         <<block_shape[2], block_shape[3]>>, sbas_overlaps)
    /\ UNCHANGED <<bpc, loop, block_shape>>
    /\ inputsUnchanged

BiStop ==
    /\ bpc = "iter"
    /\ bi_done(gen, <<full_shape[2], full_shape[3]>>)
    /\ bpc' = "done"
    /\ UNCHANGED <<loop, block_shape, gen, blks>>
    /\ inputsUnchanged

NextBlk ==
    \/ GbsEnter
    \/ GbsGrowRows
    \/ GbsGrowCols
    \/ GbsBreak
    \/ GbsReturn
    \/ BiYield
    \/ BiStop

SpecBlk == InitBlk /\ [][NextBlk]_vars

-----------------------------------------------------------------------------
(* calc_soln on its own: every date list, interferogram list and chunk     *)
(* within the bounds, the function stepped from its call to its return.    *)

MaxIfgs == 3

\* ordered lists of unique dates (as date2num numbers): two and three dates
DateLists == { <<1, 2>>, <<1, 3, 4>> }

\* phase values of the input: NaN and whole numbers of radians
PhaseValues == {NaN, Fin(0), Fin(1), Fin(2), Fin(3)}

\* the (early, late) pairs over a date list
Pairs(dates) ==
    {pr \in {<<dates[i], dates[j]>> : i, j \in 1..Len(dates)} : pr[1] < pr[2]}

\* every list of one to MaxIfgs pairs
IfgLists(dates) == UNION {[1..m -> Pairs(dates)] : m \in 1..MaxIfgs}

Negated(col) ==
    [k \in 1..Len(col) |-> IF col[k].nan THEN NaN ELSE Fin(-col[k].v)]

\* chunks of depth m: one pixel holding any phase sequence, and two pixels,
\* the second holding the first one's negative
Chunks(m) ==
    {[shape |-> <<m, 1, 1>>, val |-> [p \in ChunkPixels(<<m, 1, 1>>) |-> col]] :
        col \in [1..m -> PhaseValues]}
    \cup
    {[shape |-> <<m, 1, 2>>,
      val |-> [p \in ChunkPixels(<<m, 1, 2>>) |->
                 IF p[2] = 0 THEN col ELSE Negated(col)]] :
        col \in [1..m -> PhaseValues]}

InitSoln ==
    /\ NoRun
    /\ NoSession
    /\ DefaultArgs
    /\ opened = NoOpens
    /\ NoPrepare
    /\ full_shape = <<0, 0, 0>> /\ chunk_size = <<0, 0, 0>>
    /\ nbytes = 4 /\ block_size_max = 0
    /\ bpc = "idle" /\ loop = gbs_none /\ gen = bi_enter
    /\ block_shape = <<0, 0, 0>>
    /\ blks = <<>>
    /\ \E dates \in DateLists : \E ifgs \in IfgLists(dates) :
          \E c \in Chunks(Len(ifgs)) : soln = cs_call(c, dates, ifgs)

solnOnly ==
    UNCHANGED <<blkVars, fileVars, mainVars, poolVars, nrun, prev_dset, prev_exc,
                argVars, opened, prepVars>>

CsEnter ==
    /\ soln.pos = "enter"
    /\ soln' = cs_enter(soln)
    /\ solnOnly

CsFastReturn ==
    /\ soln.pos = "test" /\ cs_fast(soln)
    /\ soln' = cs_return_zeros(soln)
    /\ solnOnly

CsBuildA ==
    /\ soln.pos = "test" /\ ~cs_fast(soln)
    /\ soln' = cs_build(soln)
    /\ solnOnly

CsPinv ==
    /\ soln.pos = "pinv"
    /\ soln' = cs_pinv(soln)
    /\ solnOnly

CsMatmul ==
    /\ soln.pos = "matmul"
    /\ soln' = cs_matmul(soln)
    /\ solnOnly

CsConcat ==
    /\ soln.pos = "concat"
    /\ soln' = cs_concat(soln)
    /\ solnOnly

CsScale ==
    /\ soln.pos = "scale"
    /\ soln' = cs_scale(soln)
    /\ solnOnly

NextSoln ==
    \/ CsEnter
    \/ CsFastReturn
    \/ CsBuildA
    \/ CsPinv
    \/ CsMatmul
    \/ CsConcat
    \/ CsScale

SpecSoln == InitSoln /\ [][NextSoln]_vars

-----------------------------------------------------------------------------
(* One run_inversion call, timeseries.py:50-197, with run_sbas and its     *)
(* process pool, timeseries.py:200-289.                                    *)

RunRows == 2
RunCols == 3
MaxBlocks == 4

\* ProcessPoolExecutor(max_workers=4), timeseries.py:243
max_workers_cpu_count == 4 + 4
max_workers == 4

\* the budgets tried: run_inversion passes 100e6 for rasters of gigabytes;
\* the model's rasters are a few pixels and its budgets a few items
RunBudgets == {12, 24, 48}

\* what sario.load_slclist_ifglist and utils.filter_slclist_ifglist give:
\* three dates (as date2num numbers) and the three interferograms over them
RunSlclist == <<1, 2, 3>>
RunIfglist == << <<1, 2>>, <<2, 3>>, <<1, 3>> >>
RunValidIdxs == <<1, 2, 3>>

\* phase sequences of one pixel over the three interferograms
ColNaN == <<NaN, NaN, NaN>>
ColZero == <<Fin(0), Fin(0), Fin(0)>>
ColCons == <<Fin(1), Fin(2), Fin(3)>>
ColNeg == <<Fin(-1), Fin(-2), Fin(-3)>>
ColMixed == <<NaN, Fin(2), Fin(3)>>

\* input stacks: the pixel at (r, c) holds the sequence (r + c) mod 3
Layouts == { <<ColNeg, ColCons, ColZero>>,
             <<ColNaN, ColNaN, ColNaN>>,
             <<ColMixed, ColCons, ColNaN>> }

Pixels(fs) == (0..(fs[2] - 1)) \X (0..(fs[3] - 1))

Stack(layout, fs) == [p \in Pixels(fs) |-> layout[((p[1] + p[2]) % 3) + 1]]

\* what an earlier run left in outfile:/output_dset
StaleValue == [n |-> 7, d |-> 1]
StaleDset(fs) ==
    [exists |-> TRUE,
     shape |-> <<Len(RunSlclist), fs[2], fs[3]>>,
     data |-> [p \in Pixels(fs) |-> [k \in 1..Len(RunSlclist) |-> StaleValue]]]

NoDset == [exists |-> FALSE, shape |-> <<>>, data |-> <<>>]

\* create_dset, prepare.py:44-47: a new dataset of the shape, zero filled
create_dset(shape) ==
    [exists |-> TRUE,
     shape |-> shape,
     data |-> [p \in (0..(shape[2] - 1)) \X (0..(shape[3] - 1)) |->
                  [k \in 1..shape[1] |-> RatZero]]]

\* timeseries.py:131
output_shape_unknowns(slcs, fs) == <<Len(slcs) - 1, fs[2], fs[3]>>
output_shape(slcs, fs) == <<Len(slcs), fs[2], fs[3]>>

\* sario.check_dset(outfile, output_dset, overwrite): False when the dataset
\* exists and overwrite is False; deletes the dataset when overwrite is True
check_dset(d, ow) == ~(d.exists /\ ~ow)
check_dset_after(d, ow) == IF d.exists /\ ow THEN NoDset ELSE d

\* _load_and_run, timeseries.py:265-281: the block's region of the valid
\* layers, solved
_load_and_run(blk, stack, idxs, slcs, ifgs) ==
    LET shape == <<Len(idxs), blk[1][2] - blk[1][1], blk[2][2] - blk[2][1]>>
        unw_chunk ==
            [shape |-> shape,
             val |-> [q \in ChunkPixels(shape) |->
                        [k \in 1..Len(idxs) |->
                            stack[<<blk[1][1] + q[1], blk[2][1] + q[2]>>][idxs[k]]]]]
    IN calc_soln(unw_chunk, slcs, ifgs)

\* the region hf[output_dset][:, rows[0]:rows[1], cols[0]:cols[1]]
InRegion(p, rows, cols) ==
    /\ rows[1] <= p[1] /\ p[1] < rows[2]
    /\ cols[1] <= p[2] /\ p[2] < cols[2]

\* the assignment of write_out_chunk fits the region
chunk_fits(d, chunk, rows, cols) ==
    chunk.shape = <<d.shape[1], rows[2] - rows[1], cols[2] - cols[1]>>

\* write_out_chunk, timeseries.py:284-289
write_out_chunk(d, chunk, rows, cols) ==
    [d EXCEPT !.data =
        [p \in DOMAIN d.data |->
            IF InRegion(p, rows, cols)
            THEN chunk.val[<<p[1] - rows[1], p[2] - cols[1]>>]
            ELSE d.data[p]]]

NoChunk == [shape |-> <<0, 0, 0>>, val |-> <<>>]

\* as_completed, timeseries.py:258: the futures it may yield next
as_completed_any(f, seen) == {b \in DOMAIN f : f[b] # "queued" /\ b \notin seen}
as_completed(f, seen) == {b \in DOMAIN f : f[b] \in {"ok", "failed"} /\ b \notin seen}

\* the futures as_completed has yielded, after it yields b
yielded_forgotten(seen, b) == seen
yielded(seen, b) == seen \cup {b}

\* future.result() raises the task's exception, timeseries.py:260
future_raises_never(f, b) == FALSE
future_raises(f, b) == f[b] = "failed"

\* the for loop over as_completed ends, timeseries.py:258
loop_exhausted_skipping(f, seen) == \A b \in DOMAIN f \ seen : f[b] = "failed"
loop_exhausted(f, seen) == seen = DOMAIN f

\* timeseries.py:155-156: check_dset(...) is False
dset_check_fails_never(d, ow) == FALSE
dset_check_fails(d, ow) == check_dset(d, ow) = FALSE

Running == {b \in DOMAIN fut : fut[b] = "running"}

Init ==
    /\ full_shape \in {Len(RunIfglist)} \X (1..RunRows) \X (1..RunCols)
    /\ chunk_size \in {cs \in {full_shape[1]} \X (1..RunRows) \X (1..RunCols) :
                          cs[2] <= full_shape[2] /\ cs[3] <= full_shape[3]}
    /\ nbytes = 4
    /\ block_size_max \in RunBudgets
    /\ Len(blk_slices(full_shape,
                      _get_block_shape(full_shape, chunk_size,
                                       block_size_max, nbytes))) <= MaxBlocks
    /\ bpc = "idle" /\ loop = gbs_none /\ gen = bi_enter
    /\ block_shape = <<0, 0, 0>>
    /\ blks = <<>>
    /\ overwrite \in BOOLEAN
    /\ unw \in {Stack(l, full_shape) : l \in Layouts}
    /\ dset \in {NoDset, StaleDset(full_shape)}
    /\ paramfile = "previous"
    /\ meta = {}
    /\ pc = "load"
    /\ slclist = <<>> /\ ifglist = <<>> /\ valid_ifg_idxs = <<>>
    /\ exc = "none"
    /\ nsub = 0
    /\ collected = {}
    /\ nwritten = <<>>
    /\ fut = <<>>
    /\ result = <<>>
    /\ NoSession
    /\ DefaultArgs
    /\ opened = NoOpens
    /\ NoPrepare
    /\ soln = cs_none

blkInputs == <<full_shape, chunk_size, nbytes, block_size_max, bpc, loop, gen>>

\* lines 102-119: the lists are loaded and filtered, the input's shape read
RiLoad ==
    /\ pc = "load"
    /\ slclist' = RunSlclist
    /\ ifglist' = RunIfglist
    /\ valid_ifg_idxs' = RunValidIdxs
    /\ pc' = "block_shape"
    /\ UNCHANGED <<blkVars, fileVars, poolVars, exc, nsub, collected, nwritten>>
    /\ UNCHANGED <<sessionVars, argVars, opened, prepVars>>

\* lines 122-124
RiBlockShape ==
    /\ pc = "block_shape"
    /\ block_shape' = _get_block_shape(full_shape, chunk_size, block_size_max, nbytes)
    /\ pc' = "record"
    /\ UNCHANGED <<blkInputs, blks, fileVars, poolVars>>
    /\ UNCHANGED <<slclist, ifglist, valid_ifg_idxs, exc, nsub, collected, nwritten>>
    /\ UNCHANGED <<sessionVars, argVars, opened, prepVars>>

\* lines 133-153, _record_run_params: the side file is rewritten
RiRecordParams ==
    /\ pc = "record"
    /\ paramfile' = "current"
    /\ pc' = "check"
    /\ UNCHANGED <<blkVars, overwrite, unw, dset, meta, poolVars>>
    /\ UNCHANGED <<slclist, ifglist, valid_ifg_idxs, exc, nsub, collected, nwritten>>
    /\ UNCHANGED <<sessionVars, argVars, opened, prepVars>>

\* lines 155-156: the dataset exists and may not be overwritten
RiCheckRaise ==
    /\ pc = "check"
    /\ dset_check_fails(dset, overwrite)
    /\ exc' = "ValueError"
    /\ pc' = "raised"
    /\ UNCHANGED <<blkVars, fileVars, poolVars>>
    /\ UNCHANGED <<slclist, ifglist, valid_ifg_idxs, nsub, collected, nwritten>>
    /\ UNCHANGED <<sessionVars, argVars, opened, prepVars>>

\* line 155: check_dset passes, deleting a dataset that is to be overwritten
RiCheckPass ==
    /\ pc = "check"
    /\ ~dset_check_fails(dset, overwrite)
    /\ dset' = check_dset_after(dset, overwrite)
    /\ pc' = "create"
    /\ UNCHANGED <<blkVars, overwrite, unw, paramfile, meta, poolVars>>
    /\ UNCHANGED <<slclist, ifglist, valid_ifg_idxs, exc, nsub, collected, nwritten>>
    /\ UNCHANGED <<sessionVars, argVars, opened, prepVars>>

\* lines 158-160
RiCreateDset ==
    /\ pc = "create"
    /\ dset' = create_dset(output_shape(slclist, full_shape))
    /\ pc' = "sbas"
    /\ UNCHANGED <<blkVars, overwrite, unw, paramfile, meta, poolVars>>
    /\ UNCHANGED <<slclist, ifglist, valid_ifg_idxs, exc, nsub, collected, nwritten>>
    /\ UNCHANGED <<sessionVars, argVars, opened, prepVars>>

\* lines 162-175 against lines 200-211: run_inversion passes ten positional
\* arguments, so run_sbas's ninth parameter, constant_velocity, receives
\* alpha and its tenth, alpha, receives outlier_sigma
run_sbas_args(a, sigma) ==
    [constant_velocity |-> a, alpha |-> sigma, outlier_sigma |-> 0]

\* line 233: the test on run_sbas's own alpha
alpha_negative(args) == args.alpha < 0

\* lines 233-234
SbasAlphaRaise ==
    /\ pc = "sbas"
    /\ alpha_negative(run_sbas_args(alpha, outlier_sigma))
    /\ exc' = "ValueError"
    /\ pc' = "raised"
    /\ UNCHANGED <<blkVars, fileVars, poolVars>>
    /\ UNCHANGED <<slclist, ifglist, valid_ifg_idxs, nsub, collected, nwritten>>
    /\ UNCHANGED <<sessionVars, argVars, opened, prepVars>>

\* run_sbas, lines 236-243: the blocks are laid out and the pool is opened
SbasEnter ==
    /\ pc = "sbas"
    /\ ~alpha_negative(run_sbas_args(alpha, outlier_sigma))
    /\ blks' = blk_slices(full_shape, block_shape)
    /\ fut' = <<>>
    /\ result' = <<>>
    /\ nwritten' = [b \in 1..Len(blks') |-> 0]
    /\ nsub' = 0
    /\ collected' = {}
    /\ IF bi_raises(<<block_shape[2], block_shape[3]>>, sbas_overlaps)
       THEN exc' = "ValueError" /\ pc' = "raised"
       ELSE exc' = exc /\ pc' = "submit"
    /\ UNCHANGED <<blkInputs, block_shape, fileVars>>
    /\ UNCHANGED <<slclist, ifglist, valid_ifg_idxs>>
    /\ UNCHANGED <<sessionVars, argVars, opened, prepVars>>

\* lines 245-257: executor.submit for the next block
SbasSubmit ==
    /\ pc = "submit"
    /\ nsub < Len(blks)
    /\ nsub' = nsub + 1
    /\ fut' = Append(fut, "queued")
    /\ result' = Append(result, NoChunk)
    /\ pc' = IF nsub' = Len(blks) THEN "collect" ELSE "submit"
    /\ UNCHANGED <<blkVars, fileVars>>
    /\ UNCHANGED <<slclist, ifglist, valid_ifg_idxs, exc, collected, nwritten>>
    /\ UNCHANGED <<sessionVars, argVars, opened, prepVars>>

\* line 269: the one store a task opens, to read its block
load_and_run_opens_output == {"unw_stack_file", "outfile"}
load_and_run_opens == {"unw_stack_file"}

\* line 288: the store write_out_chunk opens
write_out_chunk_opens == {"outfile"}

\* a free worker process takes a queued task and opens the input
TaskStart(b) ==
    /\ fut[b] = "queued"
    /\ Cardinality(Running) < max_workers
    /\ fut' = [fut EXCEPT ![b] = "running"]
    /\ opened' = [opened EXCEPT !.worker = @ \cup load_and_run_opens]
    /\ UNCHANGED <<blkVars, fileVars, mainVars, result>>
    /\ UNCHANGED <<sessionVars, argVars, prepVars>>

\* _load_and_run returns the block's sub-cube
TaskReturn(b) ==
    /\ fut[b] = "running"
    /\ fut' = [fut EXCEPT ![b] = "ok"]
    /\ result' = [result EXCEPT ![b] =
                    _load_and_run(blks[b], unw, valid_ifg_idxs, slclist, ifglist)]
    /\ UNCHANGED <<blkVars, fileVars, mainVars>>
    /\ UNCHANGED <<sessionVars, argVars, opened, prepVars>>

\* _load_and_run raises (an I/O error, a numerical error)
TaskRaise(b) ==
    /\ fut[b] = "running"
    /\ fut' = [fut EXCEPT ![b] = "failed"]
    /\ UNCHANGED <<blkVars, fileVars, mainVars, result>>
    /\ UNCHANGED <<sessionVars, argVars, opened, prepVars>>

\* lines 258-262: as_completed yields a future whose result() returns, and
\* the chunk is written
SbasWrite(b) ==
    /\ pc = "collect"
    /\ b \in as_completed(fut, collected)
    /\ ~future_raises(fut, b)
    /\ collected' = yielded(collected, b)
    /\ IF chunk_fits(dset, result[b], blks[b][1], blks[b][2])
       THEN /\ dset' = write_out_chunk(dset, result[b], blks[b][1], blks[b][2])
            /\ nwritten' = [nwritten EXCEPT ![b] = @ + 1]
            /\ exc' = exc /\ pc' = pc
       ELSE /\ dset' = dset /\ nwritten' = nwritten
            /\ exc' = "TypeError" /\ pc' = "pool_exit"
    /\ opened' = [opened EXCEPT !.main = @ \cup write_out_chunk_opens]
    /\ UNCHANGED <<blkVars, overwrite, unw, paramfile, meta, poolVars>>
    /\ UNCHANGED <<slclist, ifglist, valid_ifg_idxs, nsub>>
    /\ UNCHANGED <<sessionVars, argVars, prepVars>>

\* lines 258-260: as_completed yields a future whose result() raises
SbasResultRaises(b) ==
    /\ pc = "collect"
    /\ b \in as_completed(fut, collected)
    /\ future_raises(fut, b)
    /\ collected' = yielded(collected, b)
    /\ exc' = "TaskError"
    /\ pc' = "pool_exit"
    /\ UNCHANGED <<blkVars, fileVars, poolVars>>
    /\ UNCHANGED <<slclist, ifglist, valid_ifg_idxs, nsub, nwritten>>
    /\ UNCHANGED <<sessionVars, argVars, opened, prepVars>>

\* line 243, the with block left by an exception: shutdown(wait=True) lets
\* every submitted task finish, then the exception leaves run_inversion
PoolExitRaise ==
    /\ pc = "pool_exit"
    /\ \A b \in DOMAIN fut : fut[b] \in {"ok", "failed"}
    /\ pc' = "raised"
    /\ UNCHANGED <<blkVars, fileVars, poolVars>>
    /\ UNCHANGED <<slclist, ifglist, valid_ifg_idxs, exc, nsub, collected, nwritten>>
    /\ UNCHANGED <<sessionVars, argVars, opened, prepVars>>

\* as_completed is exhausted and the with block is left: run_sbas returns
SbasReturn ==
    /\ pc = "collect"
    /\ loop_exhausted(fut, collected)
    /\ pc' = "save_slclist"
    /\ UNCHANGED <<blkVars, fileVars, poolVars>>
    /\ UNCHANGED <<slclist, ifglist, valid_ifg_idxs, exc, nsub, collected, nwritten>>
    /\ UNCHANGED <<sessionVars, argVars, opened, prepVars>>

\* lines 176-178
RiSaveSlclist ==
    /\ pc = "save_slclist"
    /\ meta' = meta \cup {"slclist"}
    /\ pc' = "save_ifglist"
    /\ UNCHANGED <<blkVars, overwrite, unw, dset, paramfile, poolVars>>
    /\ UNCHANGED <<slclist, ifglist, valid_ifg_idxs, exc, nsub, collected, nwritten>>
    /\ UNCHANGED <<sessionVars, argVars, opened, prepVars>>

\* lines 179-181
RiSaveIfglist ==
    /\ pc = "save_ifglist"
    /\ meta' = meta \cup {"ifglist"}
    /\ pc' = "save_latlon"
    /\ UNCHANGED <<blkVars, overwrite, unw, dset, paramfile, poolVars>>
    /\ UNCHANGED <<slclist, ifglist, valid_ifg_idxs, exc, nsub, collected, nwritten>>
    /\ UNCHANGED <<sessionVars, argVars, opened, prepVars>>

\* lines 183-188
RiSaveLatlon ==
    /\ pc = "save_latlon"
    /\ meta' = meta \cup {"latlon"}
    /\ pc' = "netcdf"
    /\ UNCHANGED <<blkVars, overwrite, unw, dset, paramfile, poolVars>>
    /\ UNCHANGED <<slclist, ifglist, valid_ifg_idxs, exc, nsub, collected, nwritten>>
    /\ UNCHANGED <<sessionVars, argVars, opened, prepVars>>

\* lines 189-197: the netCDF copy is made and run_inversion returns
RiNetcdf ==
    /\ pc = "netcdf"
    /\ pc' = "done"
    /\ UNCHANGED <<blkVars, fileVars, poolVars>>
    /\ UNCHANGED <<slclist, ifglist, valid_ifg_idxs, exc, nsub, collected, nwritten>>
    /\ UNCHANGED <<sessionVars, argVars, opened, prepVars>>

Next ==
    \/ RiLoad
    \/ RiBlockShape
    \/ RiRecordParams
    \/ RiCheckRaise
    \/ RiCheckPass
    \/ RiCreateDset
    \/ SbasEnter
    \/ SbasSubmit
    \/ \E b \in DOMAIN fut : TaskStart(b)
    \/ \E b \in DOMAIN fut : TaskReturn(b)
    \/ \E b \in DOMAIN fut : TaskRaise(b)
    \/ \E b \in DOMAIN fut : SbasWrite(b)
    \/ \E b \in DOMAIN fut : SbasResultRaises(b)
    \/ PoolExitRaise
    \/ SbasReturn
    \/ RiSaveSlclist
    \/ RiSaveIfglist
    \/ RiSaveLatlon
    \/ RiNetcdf

Spec == Init /\ [][Next]_vars

-----------------------------------------------------------------------------
(* One run_inversion call on a raster of more blocks than the pool has     *)
(* workers: one input stack, chunks of one pixel and the smallest budget,  *)
(* so that every pixel is a block, on every raster of more than MaxBlocks  *)
(* and at most MaxPoolBlocks pixels.                                       *)

MaxPoolBlocks == 6

PoolLayout == <<ColMixed, ColCons, ColNaN>>

InitPool ==
    /\ full_shape \in {Len(RunIfglist)} \X (1..RunRows) \X (1..RunCols)
    /\ chunk_size = <<full_shape[1], 1, 1>>
    /\ nbytes = 4
    /\ block_size_max \in {b \in RunBudgets : \A c \in RunBudgets : b <= c}
    /\ LET n == Len(blk_slices(full_shape,
                               _get_block_shape(full_shape, chunk_size,
                                                block_size_max, nbytes)))
       IN n > MaxBlocks /\ n <= MaxPoolBlocks
    /\ bpc = "idle" /\ loop = gbs_none /\ gen = bi_enter
    /\ block_shape = <<0, 0, 0>>
    /\ blks = <<>>
    /\ overwrite \in BOOLEAN
    /\ unw = Stack(PoolLayout, full_shape)
    /\ dset \in {NoDset, StaleDset(full_shape)}
    /\ paramfile = "previous"
    /\ meta = {}
    /\ pc = "load"
    /\ slclist = <<>> /\ ifglist = <<>> /\ valid_ifg_idxs = <<>>
    /\ exc = "none"
    /\ nsub = 0
    /\ collected = {}
    /\ nwritten = <<>>
    /\ fut = <<>>
    /\ result = <<>>
    /\ NoSession
    /\ DefaultArgs
    /\ opened = NoOpens
    /\ NoPrepare
    /\ soln = cs_none

SpecPool == InitPool /\ [][Next]_vars

-----------------------------------------------------------------------------
(* A session: run_inversion called again on the same files with the same   *)
(* inputs once a call has returned, with either value of overwrite.        *)

MaxRuns == 1

RiAgain ==
    /\ pc = "done"
    /\ nrun < MaxRuns
    /\ nrun' = nrun + 1
    /\ prev_dset' = dset
    /\ prev_exc' = exc
    /\ overwrite' \in BOOLEAN
    /\ pc' = "load"
    /\ slclist' = <<>> /\ ifglist' = <<>> /\ valid_ifg_idxs' = <<>>
    /\ exc' = "none"
    /\ nsub' = 0
    /\ collected' = {}
    /\ nwritten' = <<>>
    /\ fut' = <<>>
    /\ result' = <<>>
    /\ block_shape' = <<0, 0, 0>>
    /\ blks' = <<>>
    /\ opened' = NoOpens
    /\ UNCHANGED <<blkInputs, unw, dset, paramfile, meta, soln, argVars, prepVars>>

NextSession ==
    \/ Next
    \/ RiAgain

SpecSession == Init /\ [][NextSession]_vars

-----------------------------------------------------------------------------
(* Recovery: run_inversion called again on the same files with the same    *)
(* inputs once a call has been left by an exception, with either value of  *)
(* overwrite.  One input stack, on every raster, chunk shape and budget    *)
(* that gives at most MaxRetryBlocks blocks.                               *)

MaxRetries == 1
MaxRetryBlocks == 2

InitRecover ==
    /\ full_shape \in {Len(RunIfglist)} \X (1..RunRows) \X (1..RunCols)
    /\ chunk_size \in {cs \in {full_shape[1]} \X (1..RunRows) \X (1..RunCols) :
                          cs[2] <= full_shape[2] /\ cs[3] <= full_shape[3]}
    /\ nbytes = 4
    /\ block_size_max \in RunBudgets
    /\ Len(blk_slices(full_shape,
                      _get_block_shape(full_shape, chunk_size,
                                       block_size_max, nbytes))) <= MaxRetryBlocks
    /\ bpc = "idle" /\ loop = gbs_none /\ gen = bi_enter
    /\ block_shape = <<0, 0, 0>>
    /\ blks = <<>>
    /\ overwrite \in BOOLEAN
    /\ unw = Stack(PoolLayout, full_shape)
    /\ dset \in {NoDset, StaleDset(full_shape)}
    /\ paramfile = "previous"
    /\ meta = {}
    /\ pc = "load"
    /\ slclist = <<>> /\ ifglist = <<>> /\ valid_ifg_idxs = <<>>
    /\ exc = "none"
    /\ nsub = 0
    /\ collected = {}
    /\ nwritten = <<>>
    /\ fut = <<>>
    /\ result = <<>>
    /\ NoSession
    /\ DefaultArgs
    /\ opened = NoOpens
    /\ NoPrepare
    /\ soln = cs_none

RiRetry ==
    /\ pc = "raised"
    /\ nrun < MaxRetries
    /\ nrun' = nrun + 1
    /\ prev_dset' = dset
    /\ prev_exc' = exc
    /\ overwrite' \in BOOLEAN
    /\ pc' = "load"
    /\ slclist' = <<>> /\ ifglist' = <<>> /\ valid_ifg_idxs' = <<>>
    /\ exc' = "none"
    /\ nsub' = 0
    /\ collected' = {}
    /\ nwritten' = <<>>
    /\ fut' = <<>>
    /\ result' = <<>>
    /\ block_shape' = <<0, 0, 0>>
    /\ blks' = <<>>
    /\ opened' = NoOpens
    /\ UNCHANGED <<blkInputs, unw, dset, paramfile, meta, soln, argVars, prepVars>>

NextRecover ==
    \/ Next
    \/ RiRetry

SpecRecover == InitRecover /\ [][NextRecover]_vars

-----------------------------------------------------------------------------
(* The regularization arguments: run_inversion called with every pair of   *)
(* alpha and outlier_sigma below, on one input stack of at most            *)
(* MaxRetryBlocks blocks.                                                  *)

AlphaValues == {-1, 0, 1}
SigmaValues == {-1, 0, 4}

InitArgs ==
    /\ full_shape \in {Len(RunIfglist)} \X (1..RunRows) \X (1..RunCols)
    /\ chunk_size \in {cs \in {full_shape[1]} \X (1..RunRows) \X (1..RunCols) :
                          cs[2] <= full_shape[2] /\ cs[3] <= full_shape[3]}
    /\ nbytes = 4
    /\ block_size_max \in RunBudgets
    /\ Len(blk_slices(full_shape,
                      _get_block_shape(full_shape, chunk_size,
                                       block_size_max, nbytes))) <= MaxRetryBlocks
    /\ bpc = "idle" /\ loop = gbs_none /\ gen = bi_enter
    /\ block_shape = <<0, 0, 0>>
    /\ blks = <<>>
    /\ overwrite \in BOOLEAN
    /\ unw = Stack(PoolLayout, full_shape)
    /\ dset \in {NoDset, StaleDset(full_shape)}
    /\ paramfile = "previous"
    /\ meta = {}
    /\ pc = "load"
    /\ slclist = <<>> /\ ifglist = <<>> /\ valid_ifg_idxs = <<>>
    /\ exc = "none"
    /\ nsub = 0
    /\ collected = {}
    /\ nwritten = <<>>
    /\ fut = <<>>
    /\ result = <<>>
    /\ nrun = 0 /\ prev_dset = NoDset /\ prev_exc = "none"
    /\ alpha \in AlphaValues
    /\ outlier_sigma \in SigmaValues
    /\ opened = NoOpens
    /\ NoPrepare
    /\ soln = cs_none

NextArgs ==
    \/ Next
    \/ SbasAlphaRaise

SpecArgs == InitArgs /\ [][NextArgs]_vars

-----------------------------------------------------------------------------
(* insar/scripts/process.py: main runs the steps selected by kwargs['step'] *)
(* or, when that is empty, the steps from kwargs['start'] on.  Every step   *)
(* but prep_igrams_dir returns None; a step may also raise (a failed       *)
(* subprocess, a bad option).  The .geo files are counted in the current   *)
(* directory, which prep_igrams_dir changes to igrams when it succeeds.    *)

MaxStepList == 2
MaxGeos == 2

\* the engine of timeseries.py is not running
EngineIdle ==
    /\ NoRun
    /\ NoSession
    /\ DefaultArgs
    /\ opened = NoOpens
    /\ soln = cs_none
    /\ full_shape = <<0, 0, 0>> /\ chunk_size = <<0, 0, 0>>
    /\ nbytes = 4 /\ block_size_max = 0
    /\ bpc = "idle" /\ loop = gbs_none /\ gen = bi_enter
    /\ block_shape = <<0, 0, 0>>
    /\ blks = <<>>

engineVars == <<blkVars, fileVars, mainVars, poolVars, sessionVars, argVars,
                opened>>

\* lines 267-279
STEPS ==
    <<"download_eof", "create_dem", "run_sentinel_stack", "record_los_vectors",
      "prep_igrams_dir", "create_sbas_list", "run_form_igrams", "run_snaphu",
      "convert_to_tif", "run_sbas_inversion">>

\* line 293: the 0-based indices of the steps to run
step_list(step, start) ==
    IF step # <<>> THEN [k \in 1..Len(step) |-> step[k] - 1]
    ELSE [k \in 1..(Len(STEPS) - (start - 1)) |-> start - 1 + k - 1]

\* what a step or main returns: None, or an int
RetNone == [none |-> TRUE, v |-> 0]
RetInt(n) == [none |-> FALSE, v |-> n]

\* lines 122-125: prep_igrams_dir returns 1 on fewer than two .geo files;
\* the other steps fall off their end and return None
step_returns(name, num_geos) ==
    IF name = "prep_igrams_dir" /\ num_geos < 2 THEN RetInt(1) ELSE RetNone

\* lines 127-128: prep_igrams_dir, when it goes on, enters igrams
step_chdir(name, num_geos) == name = "prep_igrams_dir" /\ num_geos >= 2

\* line 299: `if ret`
halts_never(ret) == FALSE
halts(ret) == ~ret.none /\ ret.v # 0

\* the .geo files of the current directory
geos_here(m) == IF m.depth = 0 THEN m.num_geos ELSE m.igram_geos

main_call(step, start, num_geos, igram_geos) ==
    [pos |-> "call", step |-> step, start |-> start,
     num_geos |-> num_geos, igram_geos |-> igram_geos, depth |-> 0,
     step_list |-> <<>>, i |-> 0, started |-> <<>>, finished |-> <<>>,
     ret |-> RetNone]

InitProcess ==
    /\ EngineIdle
    /\ deramp = NotCalled /\ shift = NotCalled /\ flat = NotCalled
    /\ gmask = NotCalled
    /\ \E n \in 0..MaxStepList : \E step \in [1..n -> 1..Len(STEPS)] :
       \E start \in 1..Len(STEPS) :
       \E g \in 0..MaxGeos : \E ig \in 0..MaxGeos :
          /\ step # <<>> => start = 1
          /\ proc = main_call(step, start, g, ig)

procOnly == UNCHANGED <<engineVars, deramp, shift, flat, gmask>>

\* lines 287-294
MainEnter ==
    /\ proc.pos = "call"
    /\ proc' = [proc EXCEPT !.pos = "loop", !.i = 1,
                            !.step_list = step_list(proc.step, proc.start)]
    /\ procOnly

\* lines 295-297: the next step is started
MainStartStep ==
    /\ proc.pos = "loop"
    /\ proc.i <= Len(proc.step_list)
    /\ proc' = [proc EXCEPT !.pos = "in_step",
                  !.started = Append(@, STEPS[proc.step_list[proc.i] + 1])]
    /\ procOnly

\* lines 298-300: the step returns, and main returns what a step returned
\* if that is true
MainStepReturns ==
    /\ proc.pos = "in_step"
    /\ LET name == STEPS[proc.step_list[proc.i] + 1]
           g == geos_here(proc)
           ret == step_returns(name, g)
       IN proc' = [proc EXCEPT
                     !.finished = Append(@, [name |-> name, num_geos |-> g,
                                             ret |-> ret]),
                     !.depth = IF step_chdir(name, g) THEN @ + 1 ELSE @,
                     !.ret = IF halts(ret) THEN ret ELSE @,
                     !.i = IF halts(ret) THEN @ ELSE @ + 1,
                     !.pos = IF halts(ret) THEN "returned" ELSE "loop"]
    /\ procOnly

\* line 298: the step raises, and the exception leaves main
MainStepRaises ==
    /\ proc.pos = "in_step"
    /\ proc' = [proc EXCEPT !.pos = "raised"]
    /\ procOnly

\* the loop is exhausted and main falls off its end
MainReturn ==
    /\ proc.pos = "loop"
    /\ proc.i > Len(proc.step_list)
    /\ proc' = [proc EXCEPT !.pos = "returned", !.ret = RetNone]
    /\ procOnly

NextProcess ==
    \/ MainEnter
    \/ MainStartStep
    \/ MainStepReturns
    \/ MainStepRaises
    \/ MainReturn

SpecProcess == InitProcess /\ [][NextProcess]_vars

-----------------------------------------------------------------------------
(* insar/prepare.py, shift_stack: the mean of a window around the          *)
(* reference pixel is subtracted from each layer.  A layer is a function   *)
(* from its pixels <<row, col>>, 0-based, to integers; an output pixel is  *)
(* NaN or a rational.  Slices follow Python: a negative bound counts from  *)
(* the end, and bounds are clipped to the extent.                          *)

ShiftRows == 2
ShiftCols == 2
MaxShiftLayers == 2

\* a slice bound a of an axis of length n, as Python normalises it
slice_bound(a, n) ==
    IF a < 0 THEN (IF a + n < 0 THEN 0 ELSE a + n)
    ELSE (IF a > n THEN n ELSE a)

\* the indices layer[a:b] selects on an axis of length n
py_slice(a, b, n) == {i \in 0..(n - 1) : slice_bound(a, n) <= i /\ i < slice_bound(b, n)}

RatNaN == [nan |-> TRUE, n |-> 0, d |-> 1]
RatFin(n, d) == [nan |-> FALSE, n |-> Rat(n, d).n, d |-> Rat(n, d).d]

\* line 617: the pixels of the patch around the reference pixel
patch_pixels(ref_row, ref_col, win, nrows, ncols) ==
    py_slice(ref_row - win, ref_row + win + 1, nrows)
        \X py_slice(ref_col - win, ref_col + win + 1, ncols)

\* line 618: layer - np.mean(patch); the mean of an empty patch is NaN
shift_layer(layer, patch) ==
    LET cnt == Cardinality(patch)
        total == SetSum(layer, patch)
    IN [p \in DOMAIN layer |->
          IF cnt = 0 THEN RatNaN ELSE RatFin(layer[p] * cnt - total, cnt)]

\* line 615, window // 2: an int floors; None has no floor division
WinNone == [none |-> TRUE, v |-> 0]
WinInt(w) == [none |-> FALSE, v |-> w]
window_floordiv_raises(window) == window.none
window_floordiv(window) == window.v \div 2

ShiftPixels == (0..(ShiftRows - 1)) \X (0..(ShiftCols - 1))

\* the layers of stack_in: layer k holds k + 3 * row + col
ShiftStackIn(n) == [k \in 1..n |-> [p \in ShiftPixels |-> k + 3 * p[1] + p[2]]]

WindowValues == {WinNone} \cup {WinInt(w) : w \in -1..3}

\* a layer of stack_out that has not been written
EmptyLayer == [p \in ShiftPixels |-> [nan |-> FALSE, n |-> 99, d |-> 1]]

shift_call(stack_in, ref_row, ref_col, window) ==
    [pos |-> "call", stack_in |-> stack_in,
     ref_row |-> ref_row, ref_col |-> ref_col, window |-> window,
     win |-> 0, idx |-> 0,
     stack_out |-> [k \in 1..Len(stack_in) |-> EmptyLayer],
     written |-> {}, exc |-> "none"]

InitShift ==
    /\ EngineIdle
    /\ deramp = NotCalled /\ proc = NotCalled /\ flat = NotCalled
    /\ gmask = NotCalled
    /\ \E n \in 1..MaxShiftLayers :
       \E r \in -1..ShiftRows : \E c \in -1..ShiftCols :
       \E w \in WindowValues :
          shift = shift_call(ShiftStackIn(n), r, c, w)

shiftOnly == UNCHANGED <<engineVars, deramp, proc, flat, gmask>>

\* line 615
ShiftEnter ==
    /\ shift.pos = "call"
    /\ ~window_floordiv_raises(shift.window)
    /\ shift' = [shift EXCEPT !.pos = "loop",
                              !.win = window_floordiv(shift.window)]
    /\ shiftOnly

\* line 615 on a window that is None
ShiftTypeError ==
    /\ shift.pos = "call"
    /\ window_floordiv_raises(shift.window)
    /\ shift' = [shift EXCEPT !.pos = "raised", !.exc = "TypeError"]
    /\ shiftOnly

\* lines 616-618: one layer
ShiftLayer ==
    /\ shift.pos = "loop"
    /\ shift.idx < Len(shift.stack_in)
    /\ LET layer == shift.stack_in[shift.idx + 1]
           patch == patch_pixels(shift.ref_row, shift.ref_col, shift.win,
                                 ShiftRows, ShiftCols)
       IN shift' = [shift EXCEPT
                      !.stack_out[shift.idx + 1] = shift_layer(layer, patch),
                      !.written = @ \cup {shift.idx},
                      !.idx = @ + 1]
    /\ shiftOnly

\* the loop is exhausted
ShiftReturn ==
    /\ shift.pos = "loop"
    /\ shift.idx = Len(shift.stack_in)
    /\ shift' = [shift EXCEPT !.pos = "returned"]
    /\ shiftOnly

NextShift ==
    \/ ShiftEnter
    \/ ShiftTypeError
    \/ ShiftLayer
    \/ ShiftReturn

SpecShift == InitShift /\ [][NextShift]_vars

-----------------------------------------------------------------------------
(* insar/prepare.py, remove_ramp and estimate_ramp with order=1, on layers *)
(* of one row: a layer is a function from the column index x, 0-based, to  *)
(* a value that is an integer or inf, and a mask is the set of columns     *)
(* masked.  With one row the y column of the design matrix is zero, so the *)
(* minimum-norm least-squares solution np.linalg.lstsq returns has b = 0.  *)
(* A deramped value is inf or a rational.                                  *)

FlatCols == 3
MaxFlatLayers == 2

Inf == [inf |-> TRUE, v |-> 0]
Num(x) == [inf |-> FALSE, v |-> x]

RampInf == [inf |-> TRUE, n |-> 0, d |-> 1]
RampFin(n, d) == [inf |-> FALSE, n |-> Rat(n, d).n, d |-> Rat(n, d).d]

\* line 725 and line 756: the columns the fit uses, those that are not
\* masked (no input value is NaN)
good_idxs(layer, mask) == DOMAIN layer \ mask

\* lines 750-751: estimate_ramp is implemented for order 1 and 2
order_raises(order) == order > 2

\* line 759: lstsq fails to converge on a value that is not finite
lstsq_raises(layer, mask) == \E x \in good_idxs(layer, mask) : layer[x].inf

\* lines 758-764: the fitted line c + a * x at column x, as <<num, den>>
z_fit(layer, mask, x) ==
    LET G == good_idxs(layer, mask)
        n == Cardinality(G)
        Sx == SetSum([g \in G |-> g], G)
        Sxx == SetSum([g \in G |-> g * g], G)
        Sz == SetSum([g \in G |-> layer[g].v], G)
        Sxz == SetSum([g \in G |-> g * layer[g].v], G)
        D == n * Sxx - Sx * Sx
        Na == n * Sxz - Sx * Sz
        x0 == CHOOSE g \in G : TRUE
    IN IF n = 0 THEN <<0, 1>>
       ELSE IF n = 1 THEN <<layer[x0].v * (1 + x0 * x), 1 + x0 * x0>>
       ELSE <<Sz * D - Na * Sx + n * Na * x, n * D>>

\* lines 724-729: z - z_fit
remove_ramp(layer, mask) ==
    [x \in DOMAIN layer |->
        IF layer[x].inf THEN RampInf
        ELSE LET f == z_fit(layer, mask, x)
             IN RampFin(layer[x].v * f[2] - f[1], f[2])]

\* the exception remove_ramp raises on a layer, or "none"
ramp_exception(layer, mask, order) ==
    IF order_raises(order) THEN "ValueError"
    ELSE IF lstsq_raises(layer, mask) THEN "LinAlgError"
    ELSE "none"

\* np.zeros_like(layer), and the fill of a dataset just created
zeros_like(layer) == [x \in DOMAIN layer |-> RampFin(0, 1)]

FlatX == 0..(FlatCols - 1)

\* the layers of a stack: a ramp, a bent line, a line with an inf, zeros
FlatLayers ==
    { [x \in FlatX |-> Num(x + 1)],
      [x \in FlatX |-> Num(IF x = 0 THEN 2 ELSE IF x = 1 THEN 0 ELSE x)],
      [x \in FlatX |-> IF x = 0 THEN Inf ELSE Num(x)],
      [x \in FlatX |-> Num(0)] }

\* the masks of a layer: nothing, the first column, all but the first
FlatMasks == { {}, {0}, FlatX \ {0} }

-----------------------------------------------------------------------------
(* insar/prepare.py, deramp_stack.  sario.check_dset is apertools code,    *)
(* modelled as in run_inversion.                                           *)

ds_call(layers, masks, order, ow, stack_exists, flat_exists) ==
    [pos |-> "call", layers |-> layers, masks |-> masks, order |-> order,
     overwrite |-> ow, stack_exists |-> stack_exists,
     flat_exists |-> flat_exists, created |-> FALSE,
     idx |-> 0, out |-> <<>>, written |-> {}, exc |-> "none"]

InitFlat ==
    /\ EngineIdle
    /\ deramp = NotCalled /\ proc = NotCalled /\ shift = NotCalled
    /\ gmask = NotCalled
    /\ \E n \in 1..MaxFlatLayers :
       \E layers \in [1..n -> FlatLayers] : \E masks \in [1..n -> FlatMasks] :
       \E order \in {1, 3} : \E ow, se, fe \in BOOLEAN :
          flat = ds_call(layers, masks, order, ow, se, fe)

flatOnly == UNCHANGED <<engineVars, deramp, proc, shift, gmask>>

\* lines 683-685: the .unw stack has not been made
DsNoStack ==
    /\ flat.pos = "call"
    /\ ~flat.stack_exists
    /\ flat' = [flat EXCEPT !.pos = "raised", !.exc = "ValueError"]
    /\ flatOnly

\* lines 686-687: the flattened dataset exists and is kept
DsSkip ==
    /\ flat.pos = "call"
    /\ flat.stack_exists
    /\ ~check_dset([exists |-> flat.flat_exists], flat.overwrite)
    /\ flat' = [flat EXCEPT !.pos = "returned"]
    /\ flatOnly

\* lines 689-698: the flattened dataset is created, filled with zeros
DsCreate ==
    /\ flat.pos = "call"
    /\ flat.stack_exists
    /\ check_dset([exists |-> flat.flat_exists], flat.overwrite)
    /\ flat' = [flat EXCEPT !.pos = "loop", !.created = TRUE,
                  !.out = [k \in 1..Len(flat.layers) |->
                              zeros_like(flat.layers[k])]]
    /\ flatOnly

\* the handler of line 705
caught_none(e) == FALSE
caught(e) == e = "LinAlgError"

\* lines 700-704: a layer is deramped and written
DsLayer ==
    /\ flat.pos = "loop"
    /\ flat.idx < Len(flat.layers)
    /\ LET k == flat.idx + 1
       IN /\ ramp_exception(flat.layers[k], flat.masks[k], flat.order) = "none"
          /\ flat' = [flat EXCEPT
                        !.out[k] = remove_ramp(flat.layers[k], flat.masks[k]),
                        !.written = @ \cup {flat.idx},
                        !.idx = @ + 1]
    /\ flatOnly

\* lines 703-707: remove_ramp raises; a LinAlgError is caught and the layer
\* written as zeros, any other exception leaves deramp_stack
DsLayerRaises ==
    /\ flat.pos = "loop"
    /\ flat.idx < Len(flat.layers)
    /\ LET k == flat.idx + 1
           e == ramp_exception(flat.layers[k], flat.masks[k], flat.order)
       IN /\ e # "none"
          /\ flat' = IF caught(e)
                     THEN [flat EXCEPT
                             !.out[k] = zeros_like(flat.layers[k]),
                             !.written = @ \cup {flat.idx},
                             !.idx = @ + 1]
                     ELSE [flat EXCEPT !.pos = "raised", !.exc = e]
    /\ flatOnly

\* the loop is exhausted
DsReturn ==
    /\ flat.pos = "loop"
    /\ flat.idx = Len(flat.layers)
    /\ flat' = [flat EXCEPT !.pos = "returned"]
    /\ flatOnly

NextFlat ==
    \/ DsNoStack
    \/ DsSkip
    \/ DsCreate
    \/ DsLayer
    \/ DsLayerRaises
    \/ DsReturn

SpecFlat == InitFlat /\ [][NextFlat]_vars

-----------------------------------------------------------------------------
(* insar/prepare.py, deramp_and_shift_unws, on .unw files of one row.      *)
(* Line 84 reads a global name, mask_file, that prepare.py never binds:    *)
(* as the module stands the call raises NameError there.  Whether the name *)
(* is bound in the module's globals when the call is made is an input of   *)
(* the model, and the rest of the function is modelled for the case that   *)
(* it is.  The chunk depth is the one h5py chose for the dataset.          *)

MaxUnwFiles == 3

\* a + b on deramped values that are finite
RampAdd(a, b) == RampFin(a.n * b.d + b.n * a.d, a.d * b.d)

RECURSIVE RampSum(_, _)
RampSum(f, S) ==
    IF S = {} THEN RampFin(0, 1)
    ELSE LET x == CHOOSE y \in S : TRUE
         IN RampAdd(f[x], RampSum(f, S \ {x}))

\* lines 131-133: deramped_phase -= np.mean(patch), the patch a set of
\* columns of the one row, not empty
shift_deramped(layer, patch) ==
    LET total == RampSum(layer, patch)
        cnt == Cardinality(patch)
    IN [x \in DOMAIN layer |->
          RampFin(layer[x].n * total.d * cnt - total.n * layer[x].d,
                  layer[x].d * total.d * cnt)]

\* line 131: the columns of the patch around ref_col
patch_cols(ref_col, win) == py_slice(ref_col - win, ref_col + win + 1, FlatCols)

\* line 127: the phase band as read, in the dataset's number type
as_stored(phase) == [x \in DOMAIN phase |-> RampFin(phase[x].v, 1)]

\* lines 128-133: the deramped, reference-shifted phase of one file
deramped_shifted(phase, mask, ref_col, win) ==
    shift_deramped(remove_ramp(phase, mask), patch_cols(ref_col, win))

\* line 137: what goes into the buffer
buffered(phase, deramped) == as_stored(phase)

\* the .unw files' phase bands: finite values
UnwLayers == {l \in FlatLayers : \A x \in FlatX : ~l[x].inf}

UnwMasks == { {}, {0} }

\* a slot of np.empty that has not been assigned
Unset == [x \in FlatX |-> RampFin(-99, 1)]

dr_call(files, masks, chunk_depth, ref_col, window, bound, exists, ow) ==
    [pos |-> "call", files |-> files, masks |-> masks,
     chunk_depth |-> chunk_depth, ref_col |-> ref_col, window |-> window,
     mask_file_bound |-> bound, exists |-> exists, overwrite |-> ow,
     created |-> FALSE, win |-> 0, lastidx |-> 0, idx |-> 0,
     buf |-> <<>>, dset |-> <<>>, written |-> {}, exc |-> "none"]

InitDeramp ==
    /\ EngineIdle
    /\ proc = NotCalled /\ shift = NotCalled /\ flat = NotCalled
    /\ gmask = NotCalled
    /\ \E n \in 1..MaxUnwFiles :
       \E files \in [1..n -> UnwLayers] : \E masks \in [1..n -> UnwMasks] :
       \E cd \in 1..n : \E w \in {1, 3} : \E bound, exists, ow \in BOOLEAN :
          deramp = dr_call(files, masks, cd, 1, w, bound, exists, ow)

derampOnly == UNCHANGED <<engineVars, proc, shift, flat, gmask>>

\* line 84: mask_file is not bound
DrNameError ==
    /\ deramp.pos = "call"
    /\ ~deramp.mask_file_bound
    /\ deramp' = [deramp EXCEPT !.pos = "raised", !.exc = "NameError"]
    /\ derampOnly

\* lines 84-85: the dataset exists and is kept
DrSkip ==
    /\ deramp.pos = "call"
    /\ deramp.mask_file_bound
    /\ ~check_dset([exists |-> deramp.exists], deramp.overwrite)
    /\ deramp' = [deramp EXCEPT !.pos = "returned"]
    /\ derampOnly

\* lines 86-112: the dataset is created, filled with zeros, and the buffer
\* allocated
DrCreate ==
    /\ deramp.pos = "call"
    /\ deramp.mask_file_bound
    /\ check_dset([exists |-> deramp.exists], deramp.overwrite)
    /\ deramp' = [deramp EXCEPT
                    !.pos = "loop", !.created = TRUE,
                    !.dset = [k \in 1..Len(deramp.files) |->
                                 zeros_like(deramp.files[k])],
                    !.buf = [k \in 1..deramp.chunk_depth |-> Unset],
                    !.win = deramp.window \div 2,
                    !.lastidx = 0]
    /\ derampOnly

\* lines 117-122: the buffer is written to the layers lastidx and up when a
\* batch begins
dr_flush(d) ==
    IF d.idx % d.chunk_depth = 0 /\ d.idx > 0
    THEN [d EXCEPT
            !.dset = [k \in 1..Len(d.dset) |->
                        IF k - 1 >= d.lastidx /\ k - 1 < d.lastidx + d.chunk_depth
                        THEN d.buf[k - d.lastidx] ELSE d.dset[k]],
            !.written = @ \cup {k \in 0..(Len(d.dset) - 1) :
                                  k >= d.lastidx /\ k < d.lastidx + d.chunk_depth},
            !.lastidx = d.idx]
    ELSE d

\* lines 124-137: the file is read, deramped and shifted, and a layer is
\* put into the buffer
dr_store(d) ==
    LET phase == d.files[d.idx + 1]
        deramped == deramped_shifted(phase, d.masks[d.idx + 1], d.ref_col, d.win)
        curidx == d.idx % d.chunk_depth
    IN [d EXCEPT !.buf[curidx + 1] = buffered(phase, deramped),
                 !.idx = @ + 1]

\* lines 113-137: one pass of the loop over the files
DrFile ==
    /\ deramp.pos = "loop"
    /\ deramp.idx < Len(deramp.files)
    /\ deramp' = dr_store(dr_flush(deramp))
    /\ derampOnly

\* the loop is exhausted and the function falls off its end
DrReturn ==
    /\ deramp.pos = "loop"
    /\ deramp.idx = Len(deramp.files)
    /\ deramp' = [deramp EXCEPT !.pos = "returned"]
    /\ derampOnly

NextDeramp ==
    \/ DrNameError
    \/ DrSkip
    \/ DrCreate
    \/ DrFile
    \/ DrReturn

SpecDeramp == InitDeramp /\ [][NextDeramp]_vars

-----------------------------------------------------------------------------
(* insar/prepare.py, save_geo_masks, with row_looks = col_looks = 1, the   *)
(* defaults, so that the subsample of line 363 is the whole .geo array.    *)
(* A .geo array is a function from its pixels <<row, col>> to 0 or 1 (a    *)
(* value that is not zero); a mask is a function from the pixels to        *)
(* BOOLEAN.  sario.check_dset is apertools code, modelled as in            *)
(* run_inversion; scipy's binary_opening is an erosion followed by a       *)
(* dilation, both with pixels outside the array taken as False.            *)

GeoRows == 3
GeoCols == 3
MaxGeoFiles == 2

GeoPixels == (0..(GeoRows - 1)) \X (0..(GeoCols - 1))

\* the pixels of the array under the 3x3 structure centred on p
Under3x3(p) ==
    {q \in GeoPixels : Abs(q[1] - p[1]) <= 1 /\ Abs(q[2] - p[2]) <= 1}

\* the structure centred on p lies inside the array
Inside3x3(p) ==
    /\ p[1] >= 1 /\ p[1] <= GeoRows - 2
    /\ p[2] >= 1 /\ p[2] <= GeoCols - 2

binary_erosion(m) == [p \in GeoPixels |-> Inside3x3(p) /\ \A q \in Under3x3(p) : m[q]]

binary_dilation(m) == [p \in GeoPixels |-> \E q \in Under3x3(p) : m[q]]

binary_opening(m) == binary_dilation(binary_erosion(m))

\* lines 327-330
_get_geo_mask(geo_arr) == binary_opening([p \in GeoPixels |-> geo_arr[p] = 0])

\* the .geo arrays: all zeros, zeros but for one corner, no zeros
GeoArrays ==
    { [p \in GeoPixels |-> 0],
      [p \in GeoPixels |-> IF p = <<0, 0>> THEN 1 ELSE 0],
      [p \in GeoPixels |-> 1] }

\* a layer of the bool dataset just created
FalseLayer == [p \in GeoPixels |-> FALSE]

\* line 371: np.sum(dset, axis=0)
depth_sum(stack) ==
    [p \in GeoPixels |->
        Cardinality({k \in 1..Len(stack) : stack[k][p]})]

sg_call(geos, mask_exists, stack_exists, sum_exists, ow) ==
    [pos |-> "call", geos |-> geos, mask_exists |-> mask_exists,
     stack_exists |-> stack_exists, sum_exists |-> sum_exists,
     overwrite |-> ow, created |-> FALSE, idx |-> 0,
     stack |-> <<>>, sum |-> <<>>, saved |-> {}]

InitMasks ==
    /\ EngineIdle
    /\ deramp = NotCalled /\ proc = NotCalled /\ shift = NotCalled
    /\ flat = NotCalled
    /\ \E n \in 1..MaxGeoFiles :
       \E geos \in [1..n -> GeoArrays] : \E me \in [1..n -> BOOLEAN] :
       \E se, ue, ow \in BOOLEAN :
          gmask = sg_call(geos, me, se, ue, ow)

masksOnly == UNCHANGED <<engineVars, deramp, proc, shift, flat>>

\* lines 341-342: the mask stack exists and is kept
SgSkipStack ==
    /\ gmask.pos = "call"
    /\ ~check_dset([exists |-> gmask.stack_exists], gmask.overwrite)
    /\ gmask' = [gmask EXCEPT !.pos = "returned"]
    /\ masksOnly

\* lines 343-344: the composite mask exists and is kept
SgSkipSum ==
    /\ gmask.pos = "call"
    /\ check_dset([exists |-> gmask.stack_exists], gmask.overwrite)
    /\ ~check_dset([exists |-> gmask.sum_exists], gmask.overwrite)
    /\ gmask' = [gmask EXCEPT !.pos = "returned"]
    /\ masksOnly

\* lines 341-345: both checks pass and the stack is created, all False
SgCreate ==
    /\ gmask.pos = "call"
    /\ check_dset([exists |-> gmask.stack_exists], gmask.overwrite)
    /\ check_dset([exists |-> gmask.sum_exists], gmask.overwrite)
    /\ gmask' = [gmask EXCEPT !.pos = "loop", !.created = TRUE,
                   !.stack = [k \in 1..Len(gmask.geos) |-> FalseLayer]]
    /\ masksOnly

\* line 352: the file's .mask file is there already
mask_file_exists(m, idx) == m.mask_exists[idx + 1]

\* lines 351-354: the .mask file exists and the file is passed over
SgLayerSkip ==
    /\ gmask.pos = "loop"
    /\ gmask.idx < Len(gmask.geos)
    /\ mask_file_exists(gmask, gmask.idx)
    /\ gmask' = [gmask EXCEPT !.idx = @ + 1]
    /\ masksOnly

\* lines 357-368: the mask is computed, saved as a .mask file and stored as
\* layer idx
SgLayerSave ==
    /\ gmask.pos = "loop"
    /\ gmask.idx < Len(gmask.geos)
    /\ ~mask_file_exists(gmask, gmask.idx)
    /\ gmask' = [gmask EXCEPT
                   !.stack[gmask.idx + 1] = _get_geo_mask(gmask.geos[gmask.idx + 1]),
                   !.saved = @ \cup {gmask.idx},
                   !.idx = @ + 1]
    /\ masksOnly

\* lines 370-371: the composite mask is stored and the function returns
SgSum ==
    /\ gmask.pos = "loop"
    /\ gmask.idx = Len(gmask.geos)
    /\ gmask' = [gmask EXCEPT !.pos = "returned",
                              !.sum = depth_sum(gmask.stack)]
    /\ masksOnly

NextMasks ==
    \/ SgSkipStack
    \/ SgSkipSum
    \/ SgCreate
    \/ SgLayerSkip
    \/ SgLayerSave
    \/ SgSum

SpecMasks == InitMasks /\ [][NextMasks]_vars

-----------------------------------------------------------------------------
(* Properties of the partitioner. *)

InBlock(p, blk) ==
    /\ blk[1][1] <= p[1] /\ p[1] < blk[1][2]
    /\ blk[2][1] <= p[2] /\ p[2] < blk[2][2]

\* how many of the blocks of bs hold pixel p
Holders(p, bs) == Cardinality({i \in 1..Len(bs) : InBlock(p, bs[i])})

\* C2: once block_iterator is exhausted, every pixel of the raster lies in
\* exactly one of the blocks it yielded for the block shape that
\* _get_block_shape returned; the stepped iteration yields the very list
\* run_sbas iterates over.
C2_BlocksTileRaster ==
    bpc = "done" =>
        /\ blks = blk_slices(full_shape, block_shape)
        /\ block_shape = _get_block_shape(full_shape, chunk_size,
                                          block_size_max, nbytes)
        /\ \A p \in Pixels(full_shape) : Holders(p, blks) = 1

C2_Witness ==
    /\ bpc = "done"
    /\ Len(blks) >= 4
    /\ full_shape[2] = 3 /\ full_shape[3] = 3
    /\ block_shape[2] = 2 /\ block_shape[3] = 2

\* C10 as claimed: with a budget of at least one chunk, the returned block
\* shape's byte size stays within the budget.
C10_BlockWithinBudget ==
    (bpc \in {"iter", "done"}
        /\ block_size_max >= prod(chunk_size) * nbytes)
    => prod(block_shape) * nbytes <= block_size_max

\* the byte size of one chunk: stack depth times chunk rows times chunk
\* columns times nbytes
ChunkBytes == prod(chunk_size) * nbytes

\* C11 as claimed: with a budget smaller than one chunk's byte size,
\* _get_block_shape does not return a block shape (it is left by ValueError,
\* which in the model would leave it short of its return).
C11_SmallBudgetRaises ==
    block_size_max < ChunkBytes => bpc \notin {"iter", "done"}

\* C12 as claimed: the returned block is wider than one chunk only if its
\* row extent equals the raster's height.
C12_ColsOnlyAtFullHeight ==
    bpc \in {"iter", "done"} =>
        (block_shape[3] > chunk_size[3] => block_shape[2] = full_shape[2])

\* C12 as amended: rows are grown first: the returned block is wider than
\* one chunk only if its row extent is at least the raster's height (it
\* equals the height, or is the one chunk that is taller than the raster);
\* the same holds of the shape the loop is holding at every pass, and the
\* stepped loop returns the function's value.
C12_RowsFirst ==
    /\ bpc \in {"loop", "iter", "done"} =>
          (loop.cur_block_shape[3] > chunk_size[3]
              => /\ loop.cur_block_shape[2] >= full_shape[2]
                 /\ \/ loop.cur_block_shape[2] = full_shape[2]
                    \/ loop.cur_block_shape[2] = chunk_size[2])
    /\ bpc \in {"iter", "done"} =>
          /\ block_shape = _get_block_shape(full_shape, chunk_size,
                                            block_size_max, nbytes)
          /\ block_shape[3] > chunk_size[3] => block_shape[2] >= full_shape[2]

\* a returned block of several chunk rows and several chunk columns
C12_Witness ==
    /\ bpc = "done"
    /\ loop.row_chunks >= 2 /\ loop.col_chunks >= 2
    /\ block_shape[3] > chunk_size[3]
    /\ block_shape[2] = full_shape[2]
    /\ block_shape[3] < full_shape[3]

\* n is a positive whole multiple of c, or exactly the full extent
AlignedExtent(n, c, full) ==
    \/ n = full
    \/ \E k \in 1..n : n = k * c

\* C13: in each spatial dimension the returned block's extent is a positive
\* whole multiple of the chunk extent or exactly the raster's extent, and
\* its depth is the chunk's depth.
C13_ChunkAligned ==
    bpc \in {"iter", "done"} =>
        /\ AlignedExtent(block_shape[2], chunk_size[2], full_shape[2])
        /\ AlignedExtent(block_shape[3], chunk_size[3], full_shape[3])
        /\ block_shape[1] = chunk_size[1]

\* a returned block clipped to a raster height that is no multiple of the
\* chunk height, and two whole chunks wide inside a wider raster
C13_Witness ==
    /\ bpc = "done"
    /\ block_shape[2] = full_shape[2]
    /\ block_shape[2] % chunk_size[2] # 0
    /\ block_shape[3] = 2 * chunk_size[3]
    /\ block_shape[3] < full_shape[3]

-----------------------------------------------------------------------------
(* Properties of one run_inversion call. *)

\* run_sbas has returned to run_inversion
AfterSbas == {"save_slclist", "save_ifglist", "save_latlon", "netcdf", "done"}

BlockIds == 1..Len(blks)

\* the sub-cube block b's task computes
Solution(b) == _load_and_run(blks[b], unw, valid_ifg_idxs, slclist, ifglist)

\* every value of the chunk's slice at date index 0 is zero
FirstSliceZero(chunk) ==
    /\ chunk.shape[1] >= 1
    /\ \A q \in ChunkPixels(chunk.shape) : chunk.val[q][1] = RatZero

SomeNonZero(chunk) ==
    \E q \in ChunkPixels(chunk.shape) : \E k \in 1..chunk.shape[1] :
        chunk.val[q][k] # RatZero

\* C1: every sub-cube a task returned from calc_soln, by the zero-sum
\* shortcut or by the pseudo-inverse, is zero at date index 0 for every
\* pixel, and once run_sbas has returned the output dataset is zero at date
\* index 0 for every pixel.
C1_FirstDateZero ==
    /\ \A b \in DOMAIN fut : fut[b] = "ok" => FirstSliceZero(result[b])
    /\ pc \in AfterSbas => \A p \in DOMAIN dset.data : dset.data[p][1] = RatZero

\* a finished run in which one block went through the pseudo-inverse on an
\* input holding NaN and finite values, and another took the shortcut
C1_Witness ==
    /\ pc = "done"
    /\ \E b1, b2 \in DOMAIN fut :
        /\ SomeNonZero(result[b1])
        /\ ~SomeNonZero(result[b2])
        /\ \E p \in DOMAIN unw : InBlock(p, blks[b1]) /\ unw[p][1].nan
        /\ \E p \in DOMAIN unw : InBlock(p, blks[b1]) /\ ~unw[p][1].nan

\* C3: a step in which as_completed hands block b to the loop body and the
\* body goes on to write_out_chunk is taken only when b's task has finished
\* and its future holds the sub-cube the task computed; a step that changes
\* the output dataset during the loop writes that sub-cube.
C3_WriteAfterSolve ==
    [][\A b \in DOMAIN fut :
          (pc = "collect" /\ b \in collected' /\ b \notin collected
              /\ fut[b] # "failed")
          => /\ fut[b] = "ok"
             /\ result[b] = Solution(b)
             /\ dset' = write_out_chunk(dset, result[b], blks[b][1], blks[b][2])
             /\ nwritten'[b] = nwritten[b] + 1]_vars

\* a block has been written while another block's task is still running
C3_Witness ==
    \E b1, b2 \in DOMAIN fut :
        /\ b1 \in DOMAIN nwritten /\ nwritten[b1] = 1
        /\ fut[b2] = "running"

\* what the output dataset holds when every pixel holds the solution of the
\* block it lies in
ExpectedData ==
    [p \in Pixels(full_shape) |->
        LET b == CHOOSE i \in BlockIds : InBlock(p, blks[i])
        IN Solution(b).val[<<p[1] - blks[b][1][1], p[2] - blks[b][2][1]>>]]

\* C4: the regions of two different written blocks share no pixel, and once
\* run_sbas has returned the output dataset holds, whatever the order in
\* which the tasks completed and were written, each block's solution in its
\* region.
C4_DisjointWrites ==
    /\ \A b1, b2 \in DOMAIN nwritten :
          (b1 # b2 /\ nwritten[b1] > 0 /\ nwritten[b2] > 0)
          => ~\E p \in Pixels(full_shape) :
                 InBlock(p, blks[b1]) /\ InBlock(p, blks[b2])
    /\ pc \in AfterSbas => dset.data = ExpectedData

\* a finished run of three or more blocks, the last block written first
C4_Witness ==
    /\ pc = "done"
    /\ Len(blks) >= 3
    /\ \E p \in DOMAIN dset.data : dset.data[p][2] # RatZero

\* the steps a run has left at most: the main process's position first,
\* then the blocks not yet submitted, the work the submitted tasks have
\* left, and the futures not yet yielded
PcRank ==
    CASE pc = "load" -> 12 [] pc = "block_shape" -> 11 [] pc = "record" -> 10
      [] pc = "check" -> 9 [] pc = "create" -> 8 [] pc = "sbas" -> 7
      [] pc = "submit" -> 6 [] pc = "collect" -> 5 [] pc = "pool_exit" -> 4
      [] pc = "save_slclist" -> 4 [] pc = "save_ifglist" -> 3
      [] pc = "save_latlon" -> 2 [] pc = "netcdf" -> 1
      [] OTHER -> 0

FutRank(b) == CASE fut[b] = "queued" -> 2 [] fut[b] = "running" -> 1 [] OTHER -> 0

StepsLeft ==
    PcRank * 1000
    + 4 * (Len(blks) - nsub)
    + SetSum([b \in DOMAIN fut |-> FutRank(b)], DOMAIN fut)
    + Cardinality(DOMAIN fut \ collected)

Ended == pc \in {"done", "raised"}

\* some step is possible: ENABLED Next, with the steps that are cheapest to
\* find tried first
CanStep ==
    \/ ENABLED (\E b \in DOMAIN fut : TaskStart(b))
    \/ ENABLED (\E b \in DOMAIN fut : TaskRaise(b))
    \/ ENABLED Next

\* C5: no block is ever written twice; when run_sbas has returned, every
\* block of the partition has been written exactly once; run_sbas is left
\* by an exception only if a task failed; and the run ends: every step
\* lowers the count of steps left, and a run that has not ended can step.
C5_EachBlockWrittenOnce ==
    /\ [](\A b \in DOMAIN nwritten : nwritten[b] <= 1)
    /\ [](pc \in AfterSbas =>
            /\ Len(blks) >= 1
            /\ \A b \in BlockIds : nwritten[b] = 1)
    /\ [](pc \in {"pool_exit", "raised"} /\ exc # "ValueError"
            => \E b \in DOMAIN fut : fut[b] = "failed")
    /\ [][StepsLeft' < StepsLeft]_vars
    /\ [](Ended \/ CanStep)

\* run_sbas has returned after four blocks, each written once
C5_Witness ==
    /\ pc = "save_slclist"
    /\ Len(blks) = 4
    /\ \A b \in BlockIds : nwritten[b] = 1 /\ fut[b] = "ok"

\* C6: run_sbas never returns normally when a task has failed; once an
\* exception has been surfaced, no step writes the output dataset, so the
\* blocks written before keep their values; and after a task has failed
\* the run can only go on to be left by that task's exception.
C6_TaskFailureIsFatal ==
    /\ [](pc \in AfterSbas => \A b \in DOMAIN fut : fut[b] = "ok")
    /\ [][exc # "none" => (dset' = dset /\ nwritten' = nwritten)]_vars
    /\ []((\E b \in DOMAIN fut : fut[b] = "failed") =>
            /\ pc \in {"submit", "collect", "pool_exit", "raised"}
            /\ pc = "pool_exit" => exc = "TaskError"
            /\ pc = "raised" => exc = "TaskError"
            /\ pc # "raised" => CanStep)

\* a run left by a task's exception with one block written and one not
C6_Witness ==
    /\ pc = "raised" /\ exc = "TaskError"
    /\ \E b1, b2 \in DOMAIN nwritten :
        /\ nwritten[b1] = 1 /\ nwritten[b2] = 0 /\ fut[b2] = "ok"
        /\ \E p \in DOMAIN dset.data : InBlock(p, blks[b1]) /\ dset.data[p][2] # RatZero

\* C7: metadata is attached only when run_sbas has returned and every block
\* has been written; a run left by an exception has attached none; a run
\* that ends normally has attached the date list, the interferogram list
\* and the lat/lon grid.
C7_MetadataAfterAllBlocks ==
    /\ meta # {} => /\ pc \in AfterSbas
                    /\ Len(blks) >= 1
                    /\ \A b \in BlockIds : fut[b] = "ok" /\ nwritten[b] = 1
    /\ exc # "none" => meta = {}
    /\ (\E b \in DOMAIN fut : fut[b] = "failed") => meta = {}
    /\ pc = "done" => meta = {"slclist", "ifglist", "latlon"}

C7_Witness ==
    /\ pc = "save_latlon"
    /\ meta = {"slclist", "ifglist"}
    /\ Len(blks) >= 2

\* C8: whenever a block task has been submitted, the output dataset exists
\* with shape (number of filtered dates, nrows, ncols).
C8_DsetBeforeSubmit ==
    (nsub > 0 \/ fut # <<>>) =>
        /\ dset.exists
        /\ dset.shape = <<Len(slclist), full_shape[2], full_shape[3]>>
        /\ DOMAIN dset.data = Pixels(full_shape)
        /\ \A p \in DOMAIN dset.data : Len(dset.data[p]) = Len(slclist)

\* the first task has been submitted and nothing has run yet, in a run that
\* overwrites a dataset left by an earlier run
C8_Witness ==
    /\ pc = "submit" /\ nsub = 1 /\ fut = <<"queued">>
    /\ overwrite
    /\ dset = create_dset(<<3, full_shape[2], full_shape[3]>>)

\* the dataset an earlier run left is in place and may not be overwritten
KeptDset == dset = StaleDset(full_shape) /\ ~overwrite

\* C9: when the output dataset exists and overwrite is False, no step
\* creates or changes the dataset or submits a task, and the run can only
\* end by ValueError.
C9_ExistsWithoutOverwrite ==
    /\ [][KeptDset => (dset' = dset /\ nsub' = 0 /\ fut' = <<>>)]_vars
    /\ [](KeptDset => pc \in {"load", "block_shape", "record", "check", "raised"})
    /\ [](KeptDset /\ pc = "raised" => exc = "ValueError")
    /\ [](exc = "ValueError" => KeptDset /\ nsub = 0 /\ fut = <<>>)

C9_Witness ==
    /\ pc = "raised" /\ exc = "ValueError"
    /\ KeptDset

\* the input block b's task loads
BlockInput(b) ==
    [shape |-> <<Len(valid_ifg_idxs), blks[b][1][2] - blks[b][1][1],
                 blks[b][2][2] - blks[b][2][1]>>,
     val |-> [q \in ChunkPixels(<<Len(valid_ifg_idxs),
                                  blks[b][1][2] - blks[b][1][1],
                                  blks[b][2][2] - blks[b][2][1]>>) |->
                [k \in 1..Len(valid_ifg_idxs) |->
                    unw[<<blks[b][1][1] + q[1], blks[b][2][1] + q[2]>>]
                       [valid_ifg_idxs[k]]]]]

\* C16: the sub-cube every finished task returned, by the shortcut or by
\* the pseudo-inverse, has one slice per date and the rows and columns of
\* its block; write_out_chunk's assignment therefore never fails on a shape
\* mismatch, and a written block's region holds the sub-cube over every
\* date.
C16_SubCubeFillsRegion ==
    /\ \A b \in DOMAIN fut : fut[b] = "ok" =>
          /\ result[b].shape = <<Len(slclist), blks[b][1][2] - blks[b][1][1],
                                 blks[b][2][2] - blks[b][2][1]>>
          /\ DOMAIN result[b].val = ChunkPixels(result[b].shape)
          /\ \A q \in DOMAIN result[b].val :
                Len(result[b].val[q]) = Len(slclist)
          /\ chunk_fits(dset, result[b], blks[b][1], blks[b][2])
    /\ exc # "TypeError"
    /\ \A b \in DOMAIN nwritten : nwritten[b] > 0 =>
          \A p \in Pixels(full_shape) : InBlock(p, blks[b]) =>
              /\ Len(dset.data[p]) = Len(slclist)
              /\ dset.data[p] =
                    result[b].val[<<p[1] - blks[b][1][1], p[2] - blks[b][2][1]>>]

\* a finished run with a two-pixel block that took the shortcut and a
\* one-pixel block that was solved
C16_Witness ==
    /\ pc = "done"
    /\ \E b1, b2 \in BlockIds :
        /\ nwritten[b1] = 1 /\ nwritten[b2] = 1
        /\ fast_path(BlockInput(b1)) /\ ~fast_path(BlockInput(b2))
        /\ prod(result[b1].shape) = 6
        /\ prod(result[b2].shape) = 3

\* C19: when a later run_inversion call with overwrite=True and the same
\* inputs has got past run_sbas, whatever the order the blocks completed in
\* during either call, the output dataset is what the call before left.
C19_RerunIdempotent ==
    (nrun >= 1 /\ overwrite /\ pc \in AfterSbas) =>
        /\ prev_dset.exists
        /\ dset = prev_dset

\* the second call has ended, on a raster of three or more blocks holding
\* values that are not zero
C19_Witness ==
    /\ nrun = 1 /\ overwrite /\ pc = "done"
    /\ Len(blks) >= 3
    /\ dset = prev_dset
    /\ \E p \in DOMAIN dset.data : dset.data[p][3] # RatZero

\* C20: at every moment at most 4 block tasks are running in worker
\* processes, however many blocks the partition holds: never more than the
\* pool's max_workers.
C20_AtMostFourRunning ==
    /\ Cardinality({b \in DOMAIN fut : fut[b] = "running"}) <= 4
    /\ Cardinality(Running) <= max_workers

\* four tasks are running while two more wait in the queue
C20_Witness ==
    /\ Len(blks) = 6
    /\ Cardinality({b \in DOMAIN fut : fut[b] = "running"}) = 4
    /\ Cardinality({b \in DOMAIN fut : fut[b] = "queued"}) = 2

\* the call before was left by a task's exception, part-way through the
\* blocks
FailedPartWay == nrun >= 1 /\ prev_exc = "TaskError"

\* C21: after a call that failed part-way, a call with overwrite=False
\* leaves the dataset as the failed call left it, submits nothing and can
\* only end by ValueError; a call with overwrite=True starts from a new
\* all-zero dataset and, once past run_sbas, has solved every block of the
\* partition in this call and written each once.
C21_RerunAfterFailure ==
    /\ (FailedPartWay /\ ~overwrite) =>
          /\ prev_dset.exists
          /\ dset = prev_dset
          /\ nsub = 0 /\ fut = <<>>
          /\ pc \in {"load", "block_shape", "record", "check", "raised"}
          /\ pc = "raised" => exc = "ValueError"
    /\ (FailedPartWay /\ overwrite) =>
          /\ exc # "ValueError"
          /\ pc = "sbas" =>
                dset = create_dset(output_shape(slclist, full_shape))
          /\ pc \in AfterSbas =>
                /\ DOMAIN fut = BlockIds
                /\ \A b \in BlockIds :
                      /\ fut[b] = "ok"
                      /\ result[b] = Solution(b)
                      /\ nwritten[b] = 1
                /\ dset.data = ExpectedData

\* a call with overwrite=True has ended after a call that failed with one
\* block written and another, whose solution is not zero, not written
C21_Witness ==
    /\ FailedPartWay /\ overwrite /\ pc = "done"
    /\ Len(blks) >= 2
    /\ \E p, q \in DOMAIN dset.data :
        /\ prev_dset.data[p][2] # RatZero
        /\ prev_dset.data[q] # dset.data[q]

\* the positions of the main process from the first submit on
FromSubmit == {"submit", "collect", "pool_exit"} \cup AfterSbas

\* C22: a call with a negative alpha fails with ValueError before any block
\* task is submitted: no task is ever submitted, no later position is
\* reached, and a call that has passed the dataset check and ended has ended
\* with ValueError.
C22_NegativeAlphaRaises ==
    alpha < 0 =>
        /\ nsub = 0 /\ fut = <<>>
        /\ pc \notin FromSubmit
        /\ pc = "raised" => exc = "ValueError"

\* C23: a call that fails because the dataset exists and overwrite is False
\* leaves the run-parameters side file as the run that produced the stored
\* dataset wrote it.
C23_FailedCallKeepsParams ==
    (KeptDset /\ pc = "raised") => paramfile = "previous"

\* the blocks whose write count differs between the two states of a step
Rewritten ==
    {b \in DOMAIN nwritten' :
        b \notin DOMAIN nwritten \/ nwritten'[b] # nwritten[b]}

RowChunksMax == (full_shape[2] + chunk_size[2] - 1) \div chunk_size[2]
ColChunksMax == (full_shape[3] + chunk_size[3] - 1) \div chunk_size[3]

\* the passes the loop of _get_block_shape can still make
GbsPassesLeft ==
    IF loop.broke THEN 0
    ELSE 1 + (RowChunksMax - loop.row_chunks) + (ColChunksMax - loop.col_chunks)

\* C28: _get_block_shape terminates: inside the loop the chunk counts stay
\* within what the raster allows, every pass lowers the count of passes
\* left, which is never negative, and the function is never stuck before it
\* returns.
C28_BlockShapeTerminates ==
    /\ [](bpc = "loop" =>
            /\ loop.row_chunks >= 1 /\ loop.row_chunks <= RowChunksMax
            /\ loop.col_chunks >= 1 /\ loop.col_chunks <= ColChunksMax
            /\ GbsPassesLeft >= 0
            /\ ENABLED (GbsGrowRows \/ GbsGrowCols \/ GbsBreak \/ GbsReturn))
    /\ [][(bpc = "loop" /\ loop' # loop) => GbsPassesLeft' < GbsPassesLeft]_vars

\* the loop has grown both counts to the raster's edge and left by break
C28_Witness ==
    /\ bpc = "iter"
    /\ loop.broke
    /\ loop.row_chunks = RowChunksMax /\ loop.row_chunks >= 2
    /\ loop.col_chunks = ColChunksMax /\ loop.col_chunks >= 2

-----------------------------------------------------------------------------
(* Properties of process.main. *)

\* C26: the steps started are the selected steps, in the order selected;
\* only the last finished step can have returned a true value, and then
\* main has returned that value and started nothing after that step;
\* prep_igrams_dir returns 1 whenever it finds fewer than 2 .geo files.
C26_StopsAtFirstNonZero ==
    proc.pos \notin {"idle", "call"} =>
        /\ Len(proc.started) <= Len(proc.step_list)
        /\ \A k \in 1..Len(proc.started) :
              proc.started[k] = STEPS[proc.step_list[k] + 1]
        /\ Len(proc.finished) <= Len(proc.started)
        /\ \A k \in 1..Len(proc.finished) :
              /\ proc.finished[k].name = proc.started[k]
              /\ (proc.finished[k].name = "prep_igrams_dir"
                    /\ proc.finished[k].num_geos < 2) =>
                    proc.finished[k].ret = RetInt(1)
              /\ proc.finished[k].ret \notin {RetNone, RetInt(0)} =>
                    /\ k = Len(proc.started)
                    /\ proc.pos = "returned"
                    /\ proc.ret = proc.finished[k].ret
        /\ (proc.pos = "returned" /\ proc.ret = RetNone) =>
              Len(proc.finished) = Len(proc.step_list)

\* prep_igrams_dir, started from `start`, has found one .geo file, and main
\* has returned 1 with create_sbas_list and the later steps never started
C26_Witness ==
    /\ proc.pos = "returned"
    /\ proc.ret = RetInt(1)
    /\ proc.step = <<>>
    /\ proc.num_geos = 1
    /\ Len(proc.started) >= 2
    /\ proc.started[Len(proc.started)] = "prep_igrams_dir"
    /\ Len(proc.started) < Len(proc.step_list)
    /\ proc.step_list[Len(proc.started) + 1] = 5

-----------------------------------------------------------------------------
(* Properties of shift_stack. *)

\* the arguments the docstring of shift_stack rules out
BadShiftArgs ==
    \/ shift.window.none
    \/ shift.window.v < 1
    \/ shift.ref_row \notin 0..(ShiftRows - 1)
    \/ shift.ref_col \notin 0..(ShiftCols - 1)

\* C25: called with a window that is not a positive int, or a reference
\* pixel outside the layer, shift_stack raises ValueError and writes
\* nothing to stack_out.
C25_BadArgsRaise ==
    (shift.pos \notin {"idle", "call"} /\ BadShiftArgs) =>
        /\ shift.pos = "raised"
        /\ shift.exc = "ValueError"
        /\ shift.written = {}

-----------------------------------------------------------------------------
(* Properties of deramp_stack. *)

\* the layers of the stack on which lstsq fails
FailingLayers ==
    {k \in 1..Len(flat.layers) : lstsq_raises(flat.layers[k], flat.masks[k])}

\* C29: with an order estimate_ramp implements, a LinAlgError on a layer
\* never leaves deramp_stack; the layers handled so far are all written,
\* a layer on which lstsq failed as zeros and every other layer deramped,
\* and a call that created the dataset ends with every layer written.
C29_LinAlgErrorZeroesLayer ==
    (flat.pos \notin {"idle", "call"} /\ flat.created
       /\ ~order_raises(flat.order)) =>
        /\ flat.pos # "raised"
        /\ flat.written = 0..(flat.idx - 1)
        /\ \A k \in 1..flat.idx :
              flat.out[k] = IF k \in FailingLayers
                            THEN zeros_like(flat.layers[k])
                            ELSE remove_ramp(flat.layers[k], flat.masks[k])
        /\ flat.pos = "returned" => flat.idx = Len(flat.layers)

\* the first layer failed and was zeroed, and the next was deramped to
\* something that is not zero
C29_Witness ==
    /\ flat.pos = "returned" /\ flat.created
    /\ Len(flat.layers) >= 2
    /\ 1 \in FailingLayers
    /\ 2 \notin FailingLayers
    /\ flat.out[1] = zeros_like(flat.layers[1])
    /\ flat.out[2] # zeros_like(flat.layers[2])
    /\ flat.written = {0, 1}

-----------------------------------------------------------------------------
(* Properties of deramp_and_shift_unws. *)

\* C24: when deramp_and_shift_unws has created the dataset and returned,
\* every layer idx of the dataset has been written and holds the deramped,
\* reference-shifted phase of file idx, the last batch included.
C24_EveryLayerStored ==
    (deramp.pos = "returned" /\ deramp.created) =>
        \A k \in 1..Len(deramp.files) :
            /\ (k - 1) \in deramp.written
            /\ deramp.dset[k] =
                 deramped_shifted(deramp.files[k], deramp.masks[k],
                                  deramp.ref_col, deramp.win)

-----------------------------------------------------------------------------
(* Properties of save_geo_masks. *)

\* the masks of the .geo files, in order
GeoMasks == [k \in 1..Len(gmask.geos) |-> _get_geo_mask(gmask.geos[k])]

\* C30: when save_geo_masks has created the stack and returned, layer idx
\* of the stack is the mask of the idx-th .geo file, for every idx, and the
\* composite dataset is the depth-wise sum of those masks, whether or not
\* .mask files existed before the call.
C30_StackHoldsEveryMask ==
    (gmask.pos = "returned" /\ gmask.created) =>
        /\ \A k \in 1..Len(gmask.geos) : gmask.stack[k] = GeoMasks[k]
        /\ gmask.sum = depth_sum(GeoMasks)

-----------------------------------------------------------------------------
(* Properties of one calc_soln call. *)

AllNaN(chunk) ==
    \A p \in ChunkPixels(chunk.shape) : \A k \in 1..chunk.shape[1] :
        chunk.val[p][k].nan

\* C14: on an input whose every value is NaN, calc_soln never reaches the
\* lines that build the incidence matrix and the pseudo-inverse, leaves
\* both unassigned, and returns the all-zero sub-cube with one slice per
\* date and the input's rows and columns.
C14_AllNaNShortcut ==
    (soln.pos # "idle" /\ AllNaN(soln.unw_chunk)) =>
        /\ soln.pos \in {"enter", "test", "done"}
        /\ soln.A = <<>>
        /\ soln.pA = NoPinv
        /\ soln.pos = "done" =>
              /\ soln.ret.shape = <<Len(soln.slclist), soln.unw_chunk.shape[2],
                                    soln.unw_chunk.shape[3]>>
              /\ DOMAIN soln.ret.val = cs_pixels(soln)
              /\ \A p \in cs_pixels(soln) :
                    soln.ret.val[p] = [k \in 1..Len(soln.slclist) |-> RatZero]

\* calc_soln has returned for two all-NaN pixels of three layers over
\* three dates
C14_Witness ==
    /\ soln.pos = "done"
    /\ AllNaN(soln.unw_chunk)
    /\ soln.unw_chunk.shape = <<3, 1, 2>>
    /\ Len(soln.slclist) = 3

\* C15 as claimed: whenever calc_soln returns by the zero-sum shortcut, the
\* sub-cube it returns is the one the pseudo-inverse solve gives for the
\* same input.
C15_FastPathIsOptimization ==
    (soln.pos = "done" /\ soln.A = <<>>) =>
        soln.ret = solve_chunk(soln.unw_chunk, soln.slclist, soln.ifglist)

\* per-date truth vectors, zero at the first date
TruthVectors(n) ==
    {[k \in 1..n |-> IF k = 1 THEN 0 ELSE w[k - 1]] :
        w \in [1..(n - 1) -> -3..3]}

\* the position of date d in the date list
DateIndex(dates, d) == CHOOSE i \in 1..Len(dates) : dates[i] = d

\* the phase interferogram ifg shows for the truth v
TruthPhase(dates, ifg, v) ==
    v[DateIndex(dates, ifg[2])] - v[DateIndex(dates, ifg[1])]

\* C17: the matrix calc_soln builds has one row per interferogram and one
\* column per date but the first, and applied to the unknowns v[1:] of any
\* truth vector v with v[0] = 0 it gives v[late] - v[early] for every
\* interferogram; the lines after line 329 use the matrix as it was built.
C17_IncidenceMatrix ==
    /\ soln.pos = "pinv" =>
        /\ Len(soln.A) = Len(soln.ifglist)
        /\ \A j \in 1..Len(soln.A) : Len(soln.A[j]) = Len(soln.slclist) - 1
        /\ \A v \in TruthVectors(Len(soln.slclist)) :
              \A j \in 1..Len(soln.ifglist) :
                  Dot(soln.A[j], Tail(v))
                      = TruthPhase(soln.slclist, soln.ifglist[j], v)
    /\ (soln.pos \in {"matmul", "concat", "scale"}
           \/ (soln.pos = "done" /\ soln.A # <<>>))
       => /\ soln.A = build_A_matrix(soln.slclist, soln.ifglist)
          /\ soln.pA = pinv(soln.A)

\* the matrix has been built for three dates and the three interferograms
\* over them, the longest one listed first
C17_Witness ==
    /\ soln.pos = "pinv"
    /\ soln.slclist = <<1, 3, 4>>
    /\ soln.ifglist = << <<1, 4>>, <<1, 3>>, <<3, 4>> >>
    /\ soln.A = << <<0, 1>>, <<1, 0>>, <<-1, 1>> >>

\* the dates the interferograms link to the dates of S
RECURSIVE Linked(_, _)
Linked(S, ifgs) ==
    LET T == S \cup {ifgs[j][1] : j \in {i \in 1..Len(ifgs) : ifgs[i][2] \in S}}
               \cup {ifgs[j][2] : j \in {i \in 1..Len(ifgs) : ifgs[i][1] \in S}}
    IN IF T = S THEN S ELSE Linked(T, ifgs)

\* the date graph is connected
Connected(dates, ifgs) ==
    Linked({dates[1]}, ifgs) = {dates[i] : i \in 1..Len(dates)}

\* pixel p of the chunk holds the phases of the truth v, none of them NaN
Consistent(chunk, p, dates, ifgs, v) ==
    \A j \in 1..Len(ifgs) :
        chunk.val[p][j] = Fin(TruthPhase(dates, ifgs[j], v))

\* C18 as claimed: when the date graph is connected and a pixel's phases
\* are the differences of a truth vector, the solution calc_soln returns
\* for the pixel is that truth vector (scaled to centimetres).
C18_RecoversTruth ==
    soln.pos = "done" =>
        \A p \in cs_pixels(soln) : \A v \in TruthVectors(Len(soln.slclist)) :
            (Connected(soln.slclist, soln.ifglist)
                /\ Consistent(soln.unw_chunk, p, soln.slclist, soln.ifglist, v))
            => soln.ret.val[p] =
                  [k \in 1..Len(v) |-> RatMul(Rat(v[k], 1), PHASE_TO_CM)]

====
